---- MODULE Spec2Model ----
(***************************************************************************)
(* Cheap WHOOP: device files, calibration, merge, metrics, workout         *)
(* detection and the history store of the dashboard.                       *)
(*                                                                         *)
(* Files on disk are records [exists, rows] (a missing file has            *)
(* exists = FALSE).  A timestamp is a number of seconds; a calendar day    *)
(* has DaySeconds of them.  Floating-point columns are integers here: the  *)
(* data families below are chosen so that every product and quotient the   *)
(* code forms on them is exact, except where a comment says how the        *)
(* rounding is modelled.                                                   *)
(***************************************************************************)
EXTENDS Integers, Sequences, FiniteSets, TLC

VARIABLES
    today,        \* the calendar day datetime.now() falls in
    xiaomi,       \* data/raw/xiaomi_today.csv
    coospo,       \* data/raw/coospo_workout.csv
    calibration,  \* data/calibration.json
    merged,       \* data/merged/daily_merged.csv
    history,      \* data/history.csv
    profile,      \* data/user_profile.json
    workouts,     \* data/workouts.json
    pc,           \* position of each dashboard session inside its refresh
    loc,          \* the local variables of each session's refresh
    ret           \* the value returned by the last library call

vars == <<today, xiaomi, coospo, calibration, merged, history, profile, workouts, pc, loc, ret>>

\* ------------------------------------------------------------------ values

\* pandas' missing value, in a column of non-negative numbers
NaN == 0 - 1

MinuteSeconds == 60
HourSeconds == 60 * MinuteSeconds
DaySeconds == 24 * HourSeconds

NoFile == [exists |-> FALSE, rows |-> <<>>]
File(rows) == [exists |-> TRUE, rows |-> rows]

Min(a, b) == IF a < b THEN a ELSE b
Max(a, b) == IF a > b THEN a ELSE b

Range(s) == {s[i] : i \in 1..Len(s)}

RECURSIVE SeqsUpTo(_, _)
\* all sequences over S of length at most n
SeqsUpTo(S, n) ==
    IF n = 0 THEN {<<>>}
    ELSE LET shorter == SeqsUpTo(S, n - 1)
         IN  shorter \cup {Append(s, x) : s \in {q \in shorter : Len(q) = n - 1}, x \in S}

\* a row of the wrist device (pull_xiaomi.py's columns)
WristRow(t, bpm, rr, stage, steps) ==
    [timestamp |-> t, bpm |-> bpm, rr_ms |-> rr, spo2 |-> 97,
     sleep_stage |-> stage, steps |-> steps]

\* a row of the chest strap (pull_coospo.py's columns); the columns it lacks
\* are NaN once it is concatenated with wrist rows
ChestRow(t, bpm, rr) ==
    [timestamp |-> t, bpm |-> bpm, rr_ms |-> rr, spo2 |-> NaN,
     sleep_stage |-> NaN, steps |-> NaN]

\* ------------------------------------------------------------- calibration

NoCalibration ==
    [exists |-> FALSE, bpm_slope |-> <<1, 1>>, bpm_intercept |-> 0,
     rr_slope |-> <<1, 1>>, rr_intercept |-> 0, samples |-> 0]

Linear_no_intercept(raw, slope, intercept) == (raw * slope[1]) \div slope[2]

\* raw * slope + intercept, the slope a fraction <<numerator, denominator>>
Linear(raw, slope, intercept) == (raw * slope[1]) \div slope[2] + intercept

apply_calibration_default(df, cal) ==
    [i \in 1..Len(df) |->
        [df[i] EXCEPT !.bpm = Linear(df[i].bpm, <<11, 10>>, 0),
                      !.rr_ms = Linear(df[i].rr_ms, <<9, 10>>, 0)]]

\* the table with the profile's correction applied; without a calibration
\* file (FileNotFoundError is caught) the table as it is
apply_calibration(df, cal) ==
    IF cal.exists
    THEN [i \in 1..Len(df) |->
            [df[i] EXCEPT !.bpm = Linear(df[i].bpm, cal.bpm_slope, cal.bpm_intercept),
                          !.rr_ms = Linear(df[i].rr_ms, cal.rr_slope, cal.rr_intercept)]]
    ELSE df

\* ------------------------------------------------------------------- merge

concat(a, b) == a \o b

RECURSIVE SortedOrders(_, _)
\* every order of the rows of df at the positions S that is ascending in
\* timestamp.  sort_values() is called with pandas' default kind="quicksort",
\* which is not a stable sort: rows with equal timestamps may come out in
\* either order.
SortedOrders(df, S) ==
    IF S = {} THEN {<<>>}
    ELSE LET first == {i \in S : \A j \in S : df[i].timestamp <= df[j].timestamp}
         IN  UNION {{<<df[i]>> \o rest : rest \in SortedOrders(df, S \ {i})} : i \in first}

sort_values(df) == SortedOrders(df, 1..Len(df))

\* keep=False: every row whose timestamp occurs twice is dropped
drop_duplicates_keep_false(df) ==
    LET kept == {i \in 1..Len(df) :
                    \A j \in 1..Len(df) : df[j].timestamp = df[i].timestamp => j = i}
        F[i \in 0..Len(df)] ==
            IF i = 0 THEN <<>>
            ELSE IF i \in kept THEN Append(F[i - 1], df[i]) ELSE F[i - 1]
    IN  F[Len(df)]

RECURSIVE drop_duplicates_bug(_)
\* duplicates looked for in the wrong column
drop_duplicates_bug(df) ==
    IF df = <<>> THEN <<>>
    ELSE LET n == Len(df)
             init == drop_duplicates_bug(SubSeq(df, 1, n - 1))
         IN  IF \E i \in 1..(n - 1) : df[i].bpm = df[n].bpm
             THEN init ELSE Append(init, df[n])

RECURSIVE drop_duplicates(_)
\* drop_duplicates("timestamp"), keep="first": a row is dropped when an earlier
\* row has its timestamp
drop_duplicates(df) ==
    IF df = <<>> THEN <<>>
    ELSE LET n == Len(df)
             init == drop_duplicates(SubSeq(df, 1, n - 1))
         IN  IF \E i \in 1..(n - 1) : df[i].timestamp = df[n].timestamp
             THEN init ELSE Append(init, df[n])

\* the tables merge_data() can write, given the two raw files and the profile
merge_data(x, c, cal) ==
    LET wrist == apply_calibration(x.rows, cal)
    IN  IF c.exists
        THEN {drop_duplicates(s) : s \in sort_values(concat(wrist, c.rows))}
        ELSE {wrist}

\* ---------------------------------------------------------- idle values

IdleSessions == [p \in {1, 2} |-> "idle"]
NoSnapshot == [raised |-> "none"]
NoEntry == [date |-> NaN]
NoProfile == [exists |-> FALSE, weight_kg |-> NaN]
IdleLocals ==
    [p \in {1, 2} |->
        [cal0 |-> FALSE, m |-> NoSnapshot, entry |-> NoEntry, old |-> NoFile,
         read_first |-> FALSE, wrote_last |-> FALSE]]
NoReturn == [op |-> "none"]

\* ------------------------------------------------- merge_data on its inputs

MaxMergeTs == 3
MaxWristRows == 3
MaxChestRows == 2

\* a profile as calibrate_wrist_to_chest() writes it: slope = chest mean /
\* wrist mean, and an intercept that is chest mean - slope * wrist mean = 0
ProfileA ==
    [exists |-> TRUE, bpm_slope |-> <<11, 10>>, bpm_intercept |-> 0,
     rr_slope |-> <<9, 10>>, rr_intercept |-> 0, samples |-> 30]

MergeWristInputs ==
    {[i \in 1..Len(ts) |-> WristRow(ts[i], 60 + 10 * (i % 2), 1000, 0, 100 * i)] :
        ts \in SeqsUpTo(1..MaxMergeTs, MaxWristRows)}

MergeChestInputs ==
    {[i \in 1..Len(ts) |-> ChestRow(ts[i], 140 + 10 * (i % 2), 400)] :
        ts \in SeqsUpTo(1..MaxMergeTs, MaxChestRows)}

InitMerge ==
    /\ workouts = NoFile
    /\ today = 0
    /\ xiaomi \in {File(w) : w \in MergeWristInputs}
    /\ coospo \in {File(c) : c \in MergeChestInputs} \cup {NoFile}
    /\ calibration \in {NoCalibration, ProfileA}
    /\ merged = NoFile
    /\ history = NoFile
    /\ profile = NoProfile
    /\ pc = IdleSessions
    /\ loc = IdleLocals
    /\ ret = NoReturn

\* one call of merge_data() on the files drawn by InitMerge
MergeCall ==
    /\ xiaomi.exists
    /\ ~merged.exists
    /\ \E m \in merge_data(xiaomi, coospo, calibration) : merged' = File(m)
    /\ UNCHANGED <<today, xiaomi, coospo, calibration, history, profile, pc, loc, ret, workouts>>

NextMerge == MergeCall

SpecMerge == InitMerge /\ [][NextMerge]_vars

Timestamps(df) == {df[i].timestamp : i \in 1..Len(df)}
RowsAt(df, t) == {i \in 1..Len(df) : df[i].timestamp = t}
UniqueTimestamps(df) == \A i, j \in 1..Len(df) : df[i].timestamp = df[j].timestamp => i = j
Ascending(df) == \A i, j \in 1..Len(df) : i < j => df[i].timestamp <= df[j].timestamp

CalibratedWrist == apply_calibration(xiaomi.rows, calibration)
Collisions == Timestamps(xiaomi.rows) \cap Timestamps(coospo.rows)

C3_SortedUnique ==
    merged.exists => (Ascending(merged.rows) /\ UniqueTimestamps(merged.rows))

DisjointInputs ==
    /\ coospo.exists
    /\ UniqueTimestamps(xiaomi.rows)
    /\ UniqueTimestamps(coospo.rows)
    /\ Collisions = {}

\* C4: merging series with disjoint timestamps (each unique in itself) loses
\* no row: the canonical series has len(wrist) + len(reference) rows and holds
\* every calibrated wrist row and every reference row.
C4_DisjointLosesNoRow ==
    (merged.exists /\ DisjointInputs) =>
        /\ Len(merged.rows) = Len(xiaomi.rows) + Len(coospo.rows)
        /\ Range(CalibratedWrist) \subseteq Range(merged.rows)
        /\ Range(coospo.rows) \subseteq Range(merged.rows)

\* disjoint, non-empty series have been merged
C4_Witness ==
    /\ merged.exists /\ DisjointInputs
    /\ Len(xiaomi.rows) >= 2 /\ Len(coospo.rows) >= 1

\* ------------------------------------------- workout_detector.detect_workouts

ElevatedMargin == 20
MinWorkoutRows == 10

elevated_inclusive(df, rhr) == [i \in 1..Len(df) |-> df[i].bpm >= rhr + ElevatedMargin]

\* df["elevated"] = df["bpm"] > threshold
elevated(df, rhr) == [i \in 1..Len(df) |-> df[i].bpm > rhr + ElevatedMargin]

\* df["block"] = (df["elevated"] != df["elevated"].shift()).cumsum(): the
\* first row differs from the missing value shift() puts before it
block(e) ==
    LET F[i \in 0..Len(e)] ==
            IF i = 0 THEN 0
            ELSE IF i = 1 \/ e[i] # e[i - 1] THEN F[i - 1] + 1 ELSE F[i - 1]
    IN  [i \in 1..Len(e) |-> F[i]]

\* block["bpm"].sum() over the rows S
SumBpm(df, S) ==
    LET F[i \in 0..Len(df)] ==
            IF i = 0 THEN 0
            ELSE IF i \in S THEN F[i - 1] + df[i].bpm ELSE F[i - 1]
    IN  F[Len(df)]

\* round(x / 100, 1) * 10 for x >= 0, Python's round-half-even taken on the
\* exact quotient
RoundTenth(x) ==
    LET q == x \div 10
        r == x % 10
    IN  IF r > 5 \/ (r = 5 /\ q % 2 = 1) THEN q + 1 ELSE q

\* the dictionary of one block; avg_hr and max_hr are int()s, strain is in
\* tenths, date is the day and the two times are minutes of the day
\* (strftime drops the seconds)
workout_of(df, rows, rhr) ==
    LET duration_min == Cardinality(rows)
        start_time == CHOOSE t \in {df[i].timestamp : i \in rows} :
                          \A i \in rows : t <= df[i].timestamp
        end_time == CHOOSE t \in {df[i].timestamp : i \in rows} :
                          \A i \in rows : t >= df[i].timestamp
        total == SumBpm(df, rows)
        \* (avg_hr - rhr) * duration_min * 0.001, in ten-thousandths
        raw == Max(0, (total - rhr * duration_min) * 10)
    IN  [date |-> start_time \div DaySeconds,
         start_time |-> (start_time % DaySeconds) \div MinuteSeconds,
         end_time |-> (end_time % DaySeconds) \div MinuteSeconds,
         duration_min |-> duration_min,
         avg_hr |-> total \div duration_min,
         max_hr |-> CHOOSE b \in {df[i].bpm : i \in rows} : \A i \in rows : b >= df[i].bpm,
         strain |-> IF total < rhr * duration_min
                    THEN 0 - RoundTenth((rhr * duration_min - total) \div 10)
                    ELSE Min(100, RoundTenth(raw \div 100)),
         auto_detected |-> TRUE]

detect_workouts(df, rhr) ==
    LET e == elevated(df, rhr)
        b == block(e)
        last == IF Len(df) = 0 THEN 0 ELSE b[Len(df)]
        rowsOf(id) == {i \in 1..Len(df) : b[i] = id /\ e[i]}
        F[id \in 0..last] ==
            IF id = 0 THEN <<>>
            ELSE IF rowsOf(id) # {} /\ Cardinality(rowsOf(id)) >= MinWorkoutRows
                 THEN Append(F[id - 1], workout_of(df, rowsOf(id), rhr))
                 ELSE F[id - 1]
    IN  F[last]

MaxRuns == 3
GapMinutes == 30
GapPositions == {0, 5, 11}
RunLengths == {1, MinWorkoutRows - 1, MinWorkoutRows, MinWorkoutRows + 1}

RECURSIVE Flags(_, _)
\* the elevated flags of a series made of runs that alternate, starting with `up`
Flags(runs, up) ==
    IF runs = <<>> THEN <<>>
    ELSE [i \in 1..Head(runs) |-> up] \o Flags(Tail(runs), ~up)

\* a day's rows, one per minute from 07:00, with GapMinutes missing after row
\* gapAt; an elevated row is 1 or 41 above the threshold, another is at the
\* threshold or 20 below it
WorkoutSeries(runs, up, gapAt, rhr) ==
    LET f == Flags(runs, up)
    IN  [i \in 1..Len(f) |->
            WristRow(7 * HourSeconds
                       + MinuteSeconds * (i + (IF gapAt > 0 /\ i > gapAt THEN GapMinutes ELSE 0)),
                     IF f[i] THEN rhr + ElevatedMargin + 1 + 40 * (i % 2)
                             ELSE rhr + ElevatedMargin - 20 * (i % 2),
                     1000, 0, 0)]

InitWorkout ==
    /\ workouts = NoFile
    /\ today = 0
    /\ xiaomi = NoFile
    /\ coospo = NoFile
    /\ calibration = NoCalibration
    /\ \E runs \in SeqsUpTo(RunLengths, MaxRuns), up \in BOOLEAN, gapAt \in GapPositions,
          rhr \in {55, 60} :
            /\ merged = File(WorkoutSeries(runs, up, gapAt, rhr))
            /\ ret = [op |-> "args", rhr |-> rhr, value |-> <<>>]
    /\ history = NoFile
    /\ profile = NoProfile
    /\ pc = IdleSessions
    /\ loc = IdleLocals

\* one call detect_workouts(df, rhr) on the canonical series
DetectCall ==
    /\ ret.op = "args"
    /\ ret' = [op |-> "detect_workouts", rhr |-> ret.rhr,
               value |-> detect_workouts(merged.rows, ret.rhr)]
    /\ UNCHANGED <<today, xiaomi, coospo, calibration, merged, history, profile, pc, loc, workouts>>

NextWorkout == DetectCall

SpecWorkout == InitWorkout /\ [][NextWorkout]_vars

\* rows i..j are a maximal run of rows with bpm > RHR + 20
MaximalRun(df, rhr, i, j) ==
    /\ i <= j
    /\ \A k \in i..j : df[k].bpm > rhr + ElevatedMargin
    /\ i = 1 \/ df[i - 1].bpm <= rhr + ElevatedMargin
    /\ j = Len(df) \/ df[j + 1].bpm <= rhr + ElevatedMargin

LongRuns(df, rhr) ==
    {r \in (1..Len(df)) \X (1..Len(df)) :
        MaximalRun(df, rhr, r[1], r[2]) /\ r[2] - r[1] + 1 >= MinWorkoutRows}

SegmentOfRun(df, w, r) ==
    /\ w.date = df[r[1]].timestamp \div DaySeconds
    /\ w.start_time = (df[r[1]].timestamp % DaySeconds) \div MinuteSeconds
    /\ w.end_time = (df[r[2]].timestamp % DaySeconds) \div MinuteSeconds
    /\ w.duration_min = r[2] - r[1] + 1

\* C5: detect_workouts returns exactly one segment for each maximal run of
\* consecutive rows with bpm > RHR + 20 that is at least 10 rows long and none
\* for a shorter run; runs are split by a non-elevated row, never by a gap in
\* the timestamps, and duration_min is the run's number of rows (>= 10).
C5_OneSegmentPerLongRun ==
    ret.op = "detect_workouts" =>
        LET df == merged.rows
            ws == ret.value
            runs == LongRuns(df, ret.rhr)
        IN  /\ Len(ws) = Cardinality(runs)
            /\ \A r \in runs :
                Cardinality({k \in 1..Len(ws) : SegmentOfRun(df, ws[k], r)}) = 1
            /\ \A k \in 1..Len(ws) :
                /\ ws[k].duration_min >= MinWorkoutRows
                /\ \E r \in runs : SegmentOfRun(df, ws[k], r)

\* two workouts were returned, from a series where a single non-elevated row
\* separates two long runs and a gap in the timestamps lies inside a run
C5_Witness ==
    /\ ret.op = "detect_workouts"
    /\ Len(ret.value) = 2
    /\ \E r \in LongRuns(merged.rows, ret.rhr) :
        /\ r[2] + 2 <= Len(merged.rows)
        /\ merged.rows[r[2] + 2].bpm > ret.rhr + ElevatedMargin
    /\ \E r \in LongRuns(merged.rows, ret.rhr) : \E i \in r[1]..(r[2] - 1) :
        merged.rows[i + 1].timestamp - merged.rows[i].timestamp > MinuteSeconds

\* ------------------------------------------------ calibrate_wrist_to_chest

MinCalibrationSamples == 30

\* pd.merge_asof(left, right, on="timestamp", tolerance=1min): direction is
\* the default "backward", so a left row takes the last right row whose
\* timestamp is not after its own, if that one is at most 1 minute before;
\* a left row without one gets NaN in the right columns
merge_asof(left, right) ==
    [i \in 1..Len(left) |->
        LET before == {j \in 1..Len(right) : right[j].timestamp <= left[i].timestamp}
            j == CHOOSE k \in before : \A l \in before : l <= k
        IN  IF before # {} /\ left[i].timestamp - right[j].timestamp <= MinuteSeconds
            THEN [timestamp |-> left[i].timestamp,
                  bpm_wrist |-> left[i].bpm, rr_ms_wrist |-> left[i].rr_ms,
                  spo2 |-> left[i].spo2, sleep_stage |-> left[i].sleep_stage,
                  steps |-> left[i].steps,
                  bpm_chest |-> right[j].bpm, rr_ms_chest |-> right[j].rr_ms]
            ELSE [timestamp |-> left[i].timestamp,
                  bpm_wrist |-> left[i].bpm, rr_ms_wrist |-> left[i].rr_ms,
                  spo2 |-> left[i].spo2, sleep_stage |-> left[i].sleep_stage,
                  steps |-> left[i].steps,
                  bpm_chest |-> NaN, rr_ms_chest |-> NaN]]

\* .dropna(): a row with a missing value in any column is dropped
dropna(df) ==
    LET F[i \in 0..Len(df)] ==
            IF i = 0 THEN <<>>
            ELSE IF \E c \in DOMAIN df[i] : df[i][c] = NaN THEN F[i - 1]
                 ELSE Append(F[i - 1], df[i])
    IN  F[Len(df)]

SumColumn(df, c) ==
    LET F[i \in 0..Len(df)] == IF i = 0 THEN 0 ELSE F[i - 1] + df[i][c]
    IN  F[Len(df)]

AbsDiff(a, b) == IF a < b THEN b - a ELSE a - b

SumAbsError(df) ==
    LET F[i \in 0..Len(df)] ==
            IF i = 0 THEN 0 ELSE F[i - 1] + AbsDiff(df[i].bpm_wrist, df[i].bpm_chest)
    IN  F[Len(df)]

insufficient_inclusive(n) == n <= MinCalibrationSamples

\* if len(merged) < 30
insufficient(n) == n < MinCalibrationSamples

\* the dictionary calibrate_wrist_to_chest() returns on the sorted tables; a
\* slope chest mean / wrist mean is the fraction of the two column sums, the
\* intercept chest mean - slope * wrist mean is 0, and the mean error is the
\* fraction <<sum, count>>
calibrate_wrist_to_chest(w, c, day) ==
    LET joined == dropna(merge_asof(w, c))
        n == Len(joined)
    IN  IF insufficient(n)
        THEN [error |-> TRUE, samples |-> n]
        ELSE [error |-> FALSE,
              bpm_slope |-> <<SumColumn(joined, "bpm_chest"), SumColumn(joined, "bpm_wrist")>>,
              bpm_intercept |-> 0,
              rr_slope |-> <<SumColumn(joined, "rr_ms_chest"), SumColumn(joined, "rr_ms_wrist")>>,
              rr_intercept |-> 0,
              samples |-> n,
              date |-> day,
              avg_error_before |-> <<SumAbsError(joined), n>>]

\* json.dump(calibration, f): the record apply_calibration() later loads
Persisted(r) ==
    [exists |-> TRUE, bpm_slope |-> r.bpm_slope, bpm_intercept |-> r.bpm_intercept,
     rr_slope |-> r.rr_slope, rr_intercept |-> r.rr_intercept, samples |-> r.samples]

MaxCalRows == 32
\* the table lengths tried: none, and those around the threshold
CalLengths == {0} \cup ((MinCalibrationSamples - 2)..MaxCalRows)
ChestOffsets == {0 - 61, 0 - 60, 0 - 30, 0, 30, 60}

\* n wrist rows, one per minute from 07:00
CalWristSeries(n) ==
    [i \in 1..n |-> WristRow(7 * HourSeconds + MinuteSeconds * (i - 1),
                             60 + 10 * (i % 2), 1000 - 100 * (i % 2), 0, 0)]

\* n chest rows, one per minute from 07:00 + off seconds
CalChestSeries(n, off) ==
    [i \in 1..n |-> ChestRow(7 * HourSeconds + off + MinuteSeconds * (i - 1),
                             66 + 11 * (i % 2), 900 - 90 * (i % 2))]

InitCalibrate ==
    /\ workouts = NoFile
    /\ today = 0
    /\ \E n \in CalLengths : xiaomi = File(CalWristSeries(n))
    /\ \E n \in CalLengths, off \in ChestOffsets : coospo = File(CalChestSeries(n, off))
    /\ calibration \in {NoCalibration, ProfileA}
    /\ merged = NoFile
    /\ history = NoFile
    /\ profile = NoProfile
    /\ pc = IdleSessions
    /\ loc = IdleLocals
    /\ ret = NoReturn

CalibrateCall_truncating ==
    /\ ret.op = "none"
    /\ xiaomi.exists /\ coospo.exists
    /\ \E w \in sort_values(xiaomi.rows), c \in sort_values(coospo.rows) :
        LET r == calibrate_wrist_to_chest(w, c, today)
        IN  /\ ret' = [op |-> "calibrate_wrist_to_chest", value |-> r]
            /\ calibration' = IF r.error THEN NoCalibration ELSE Persisted(r)
    /\ UNCHANGED <<today, xiaomi, coospo, merged, history, profile, pc, loc, workouts>>

\* one call calibrate_wrist_to_chest("data/raw/xiaomi_today.csv",
\* "data/raw/coospo_workout.csv")
CalibrateCall ==
    /\ ret.op = "none"
    /\ xiaomi.exists /\ coospo.exists
    /\ \E w \in sort_values(xiaomi.rows), c \in sort_values(coospo.rows) :
        LET r == calibrate_wrist_to_chest(w, c, today)
        IN  /\ ret' = [op |-> "calibrate_wrist_to_chest", value |-> r]
            /\ calibration' = IF r.error THEN calibration ELSE Persisted(r)
    /\ UNCHANGED <<today, xiaomi, coospo, merged, history, profile, pc, loc, workouts>>

NextCalibrate == CalibrateCall

SpecCalibrate == InitCalibrate /\ [][NextCalibrate]_vars

\* the pairs left after the join of the two raw files
MatchedPairs == Len(dropna(merge_asof(xiaomi.rows, coospo.rows)))

\* C6: calibrate_wrist_to_chest returns the insufficient-data error, carrying
\* the matched-pair count, whenever fewer than 30 matched pairs remain after the
\* join, and persists a profile whenever 30 or more remain; every persisted
\* profile has a sample count >= 30.
C6_ThirtyPairsNeeded ==
    /\ calibration.exists => calibration.samples >= 30
    /\ ret.op = "calibrate_wrist_to_chest" =>
        /\ MatchedPairs < 30 => (ret.value.error /\ ret.value.samples = MatchedPairs)
        /\ MatchedPairs >= 30 =>
            /\ ~ret.value.error
            /\ calibration.exists
            /\ calibration.samples = MatchedPairs

\* a calibration on exactly 30 matched pairs (of more wrist rows) has
\* succeeded and replaced the profile
C6_Witness ==
    /\ ret.op = "calibrate_wrist_to_chest"
    /\ MatchedPairs = 30
    /\ Len(xiaomi.rows) > 30
    /\ ~ret.value.error
    /\ calibration.exists /\ calibration # ProfileA

\* a calibration on 29 matched pairs has failed
C6_Witness29 ==
    /\ ret.op = "calibrate_wrist_to_chest"
    /\ MatchedPairs = 29
    /\ ret.value.error

\* ------------------------------------------------------ metrics.get_metrics

DefaultHrv == 50
DefaultRhr == 60
MaxStrain == 21
MinRecovery == 33
MaxRecovery == 100
NightLastHour == 6

RECURSIVE ISqrtIn(_, _, _)
\* the largest r in lo..hi with r * r <= n, by bisection
ISqrtIn(n, lo, hi) ==
    IF lo = hi THEN lo
    ELSE LET mid == (lo + hi + 1) \div 2
         IN  IF mid * mid <= n THEN ISqrtIn(n, mid, hi) ELSE ISqrtIn(n, lo, mid - 1)

\* the largest r with r * r <= n
ISqrt(n) == ISqrtIn(n, 0, Min(n, 46340))

\* num / den rounded to the nearest integer, halves to the even one (round())
RoundHalfEven(num, den) ==
    LET q == num \div den
        r == num % den
    IN  IF 2 * r > den \/ (2 * r = den /\ q % 2 = 1) THEN q + 1 ELSE q

\* df["rr_ms"].dropna()
rr_values(df) == SelectSeq([i \in 1..Len(df) |-> df[i].rr_ms], LAMBDA v : v # NaN)

\* np.sum(np.diff(rr) ** 2)
SumSqDiff(rr) ==
    LET F[i \in 1..Len(rr)] ==
            IF i = 1 THEN 0 ELSE F[i - 1] + (rr[i] - rr[i - 1]) * (rr[i] - rr[i - 1])
    IN  IF Len(rr) = 0 THEN 0 ELSE F[Len(rr)]

\* hrv = sqrt(mean(diff(rr) ** 2)) if len(rr) > 1 else 50, in tenths of a
\* millisecond, rounded down: the fixed-point stand-in for the float
hrv_tenths(df) ==
    LET rr == rr_values(df)
    IN  IF Len(rr) > 1
        THEN ISqrt((100 * SumSqDiff(rr)) \div (Len(rr) - 1))
        ELSE 10 * DefaultHrv

Hour(t) == (t % DaySeconds) \div HourSeconds

\* df[df["timestamp"].dt.hour.between(0, 6)]: between() includes both ends
night_rows(df) == SelectSeq(df, LAMBDA r : Hour(r.timestamp) >= 0 /\ Hour(r.timestamp) <= NightLastHour)

\* the k-th smallest bpm of the rows
KthBpm(rows, k) ==
    CHOOSE v \in {rows[i].bpm : i \in 1..Len(rows)} :
        /\ Cardinality({i \in 1..Len(rows) : rows[i].bpm < v}) < k
        /\ Cardinality({i \in 1..Len(rows) : rows[i].bpm <= v}) >= k

\* 20 * night["bpm"].quantile(0.05), pandas' linear interpolation between the
\* two order statistics around position 0.05 * (n - 1); 20 * 60 with no night
\* row.  The factor 20 keeps the interpolated value an integer.
rhr_x20(df) ==
    LET night == night_rows(df)
        n == Len(night)
        lo == (n - 1) \div 20
        frac == (n - 1) % 20
    IN  IF n = 0 THEN 20 * DefaultRhr
        ELSE IF frac = 0 THEN 20 * KthBpm(night, lo + 1)
        ELSE 20 * KthBpm(night, lo + 1)
               + frac * (KthBpm(night, lo + 2) - KthBpm(night, lo + 1))

\* df.columns; the devices' optional columns are spo2, sleep_stage and steps
AllColumns == {"timestamp", "bpm", "rr_ms", "spo2", "sleep_stage", "steps"}
Columns(df) == IF df = <<>> THEN AllColumns ELSE DOMAIN df[1]

\* df["steps"].max() if "steps" in df.columns else 0; max() skips NaN and is
\* NaN when every value is NaN
total_steps(df) ==
    IF "steps" \notin Columns(df) THEN 0
    ELSE LET vals == {df[i].steps : i \in 1..Len(df)} \ {NaN}
         IN  IF vals = {} THEN NaN ELSE CHOOSE v \in vals : \A w \in vals : w <= v

\* strain is counted in units of 1 / StrainUnit
StrainUnit == 20 * 10000

\* min(21, np.sum(excess[excess > 0]) * 0.0001)
hr_strain(df, rhr20) ==
    LET F[i \in 0..Len(df)] ==
            IF i = 0 THEN 0
            ELSE IF 20 * df[i].bpm > rhr20 THEN F[i - 1] + (20 * df[i].bpm - rhr20)
                 ELSE F[i - 1]
    IN  Min(MaxStrain * StrainUnit, F[Len(df)])

\* (total_steps / 10000) * 3
step_strain(steps) == steps * 3 * 20

strain_unclamped(df, rhr20, steps) == hr_strain(df, rhr20) + step_strain(steps)

\* strain = min(21, hr_strain + step_strain)
strain_of(df, rhr20, steps) ==
    Min(MaxStrain * StrainUnit, hr_strain(df, rhr20) + step_strain(steps))

\* int(min(100, max(33, (hrv / 80) * 100 * (60 / rhr)))) with hrv = hrv10 / 10
\* and rhr = rhr20 / 20.  rhr is a numpy float: 60 / 0.0 is inf, so the
\* product is inf (clamped to 100) or, with hrv = 0, nan, which max(33, nan)
\* replaces by 33.
recovery_of(hrv10, rhr20) ==
    IF rhr20 = 0 THEN (IF hrv10 = 0 THEN MinRecovery ELSE MaxRecovery)
    ELSE Min(MaxRecovery, Max(MinRecovery, (hrv10 * 150) \div rhr20))

\* the core of the mapping get_metrics() returns: hrv and strain in tenths
\* (round(x, 1)), rhr, recovery and steps as the int()s.  df["sleep_stage"]
\* raises when the column is absent, int(total_steps) raises on NaN.
get_metrics(df) ==
    LET hrv10 == hrv_tenths(df)
        rhr20 == rhr_x20(df)
        steps == total_steps(df)
    IN  IF "sleep_stage" \notin Columns(df) THEN [raised |-> "KeyError"]
        ELSE IF steps = NaN THEN [raised |-> "ValueError"]
        ELSE [raised |-> "",
              hrv |-> hrv10,
              rhr |-> rhr20 \div 20,
              strain |-> RoundHalfEven(strain_of(df, rhr20, steps), StrainUnit \div 10),
              recovery |-> recovery_of(hrv10, rhr20),
              steps |-> steps]

MaxMetricRows == 3
MetricHours == {3, NightLastHour, 12}
MetricBpms == {0, 60, 100000}
MetricSteps == {0, 8000, 80000}
\* rr_ms by row parity: constant, nearly constant, widely alternating
MetricRrPatterns == {<<1000, 1000>>, <<1000, 990>>, <<1000, 300>>}

MetricSeries(hb, rrp, steps) ==
    [i \in 1..Len(hb) |->
        WristRow(hb[i][1] * HourSeconds + MinuteSeconds * i, hb[i][2],
                 rrp[1 + (i % 2)], 0, IF i = Len(hb) THEN steps ELSE 0)]

InitMetrics ==
    /\ workouts = NoFile
    /\ today = 0
    /\ xiaomi = NoFile
    /\ coospo = NoFile
    /\ calibration = NoCalibration
    /\ \E hb \in SeqsUpTo(MetricHours \X MetricBpms, MaxMetricRows),
          rrp \in MetricRrPatterns, steps \in MetricSteps :
            /\ \A i \in 1..(Len(hb) - 1) : hb[i][1] <= hb[i + 1][1]
            /\ merged = File(MetricSeries(hb, rrp, steps))
    /\ history = NoFile
    /\ profile = NoProfile
    /\ pc = IdleSessions
    /\ loc = IdleLocals
    /\ ret = NoReturn

\* one call get_metrics() on the canonical series
MetricsCall ==
    /\ ret.op = "none"
    /\ merged.exists
    /\ ret' = [op |-> "get_metrics", value |-> get_metrics(merged.rows)]
    /\ UNCHANGED <<today, xiaomi, coospo, calibration, merged, history, profile, pc, loc, workouts>>

NextMetrics == MetricsCall

SpecMetrics == InitMetrics /\ [][NextMetrics]_vars

\* C7: for every canonical series with non-negative heart rates and step
\* counts, the snapshot get_metrics computes has strain in [0, 21] and
\* recovery in [33, 100] (strain is held in tenths).
C7_StrainRecoveryBounded ==
    (ret.op = "get_metrics" /\ ret.value.raised = "") =>
        /\ ret.value.strain >= 0
        /\ ret.value.strain <= 10 * MaxStrain
        /\ ret.value.recovery >= MinRecovery
        /\ ret.value.recovery <= MaxRecovery

\* a snapshot where the step count alone exceeds the strain range and the
\* HRV/RHR ratio is below the recovery range
C7_Witness ==
    /\ ret.op = "get_metrics" /\ ret.value.raised = ""
    /\ step_strain(total_steps(merged.rows)) > MaxStrain * StrainUnit
    /\ ret.value.strain = 10 * MaxStrain
    /\ hrv_tenths(merged.rows) * 150 < MinRecovery * rhr_x20(merged.rows)
    /\ ret.value.recovery = MinRecovery

\* ------------------------------------------------------- the mock devices

\* the minutes of the day sampled from the 1440 generate_xiaomi_data() writes
XiaomiMinutes == <<0, 7 * 60, 12 * 60, 23 * 60>>
\* the seconds after 07:00 sampled from the 1800 generate_coospo_data() writes
CoospoSeconds == <<0, 1>>
\* the draws of the random generators
WristSeeds == {1, 2}
ChestSeeds == {1}

\* steps_per_hour: 0 outside hours 6..21, else a draw from the hour's range
StepsPerHour(hour, seed) ==
    IF hour < 6 \/ hour >= 22 THEN 0
    ELSE IF hour >= 11 /\ hour <= 14 THEN 500 + 100 * seed
    ELSE IF hour >= 17 /\ hour <= 19 THEN 400 + 100 * seed
    ELSE 200 + 100 * seed

RECURSIVE CumulativeSteps(_, _)
\* np.cumsum(steps_per_hour)[hour]
CumulativeSteps(hour, seed) ==
    IF hour = 0 THEN StepsPerHour(0, seed)
    ELSE CumulativeSteps(hour - 1, seed) + StepsPerHour(hour, seed)

\* rr = 60000 // bpm + noise, the noise the draw that makes rr a multiple of 10
MockRr(bpm) == 10 * ((60000 \div bpm + 9) \div 10)

\* the tables generate_xiaomi_data() can write on `day`
generate_xiaomi_data(day) ==
    {[i \in 1..Len(XiaomiMinutes) |->
        LET minute == XiaomiMinutes[i]
            asleep == minute < 360 \/ minute >= 1320
            bpm == (IF asleep THEN 50 ELSE 60) + 10 * seed
        IN  WristRow(day * DaySeconds + MinuteSeconds * minute, bpm, MockRr(bpm),
                     IF minute >= 1320 THEN 1 + (seed % 3) ELSE 0,
                     CumulativeSteps(minute \div 60, seed))] : seed \in WristSeeds}

\* the tables generate_coospo_data() can write on `day`
generate_coospo_data(day) ==
    {[i \in 1..Len(CoospoSeconds) |->
        LET bpm == 130 + 10 * seed + 10 * (i % 2)
        IN  ChestRow(day * DaySeconds + 7 * HourSeconds + CoospoSeconds[i],
                     bpm, 60000 \div bpm)] : seed \in ChestSeeds}

\* ------------------------------------------------------- the history store

\* the one-row table the handlers build for today; a missing weight is None
history_entry(day, m, weight) ==
    [date |-> day, recovery |-> m.recovery, strain |-> m.strain, rhr |-> m.rhr,
     hrv |-> m.hrv, steps |-> m.steps, weight_kg |-> weight]

\* profile["weight_kg"] if profile else None
current_weight(pr) == IF pr.exists THEN pr.weight_kg ELSE NaN

HasDate(rows, day) == \E i \in 1..Len(rows) : rows[i].date = day

KeepRows(rows, keep) ==
    LET F[i \in 0..Len(rows)] ==
            IF i = 0 THEN <<>>
            ELSE IF i \in keep THEN Append(F[i - 1], rows[i]) ELSE F[i - 1]
    IN  F[Len(rows)]

drop_duplicates_date_first(rows) ==
    KeepRows(rows, {i \in 1..Len(rows) : \A j \in 1..(i - 1) : rows[j].date # rows[i].date})

\* drop_duplicates(subset="date", keep="last")
drop_duplicates_date(rows) ==
    KeepRows(rows, {i \in 1..Len(rows) : \A j \in (i + 1)..Len(rows) : rows[j].date # rows[i].date})

\* the refresh handler's table: old history + today's entry, one row per
\* date.  The dates are written as %Y-%m-%d and parsed back, which maps a day
\* to itself.
upsert_history(old, entry) ==
    IF old.exists THEN drop_duplicates_date(Append(old.rows, entry)) ELSE <<entry>>

\* the profile-save handler's table: today_date decides between updating and
\* appending, today_str dates the appended row
update_history_on_save(old, today_str, today_date, m, weight) ==
    IF old.exists
    THEN IF HasDate(old.rows, today_date)
         THEN [i \in 1..Len(old.rows) |->
                 IF old.rows[i].date = today_date
                 THEN [old.rows[i] EXCEPT !.weight_kg = weight] ELSE old.rows[i]]
         ELSE Append(old.rows, history_entry(today_str, m, weight))
    ELSE <<history_entry(today_str, m, weight)>>

\* ------------------------------------------------- the dashboard's handlers

MaxDay == 1
Weights == {70, 75}

\* the script reaches its buttons only if get_metrics() at the top of tab 1
\* returns: the canonical file is there and holds a step count
PageLoads == merged.exists /\ get_metrics(merged.rows).raised = ""

\* datetime.now(), read when the date is `day` or later: midnight may have
\* passed since the handler's previous look at the clock
Now(day) == {d \in {day, day + 1} : d <= MaxDay}

\* the "Refresh Data" button; the two generators and the handler each read
\* the clock
Refresh ==
    /\ PageLoads
    /\ \E d1 \in Now(today) : \E d2 \in Now(d1) : \E d3 \in Now(d2) :
        \E x \in generate_xiaomi_data(d1), c \in generate_coospo_data(d2) :
            \E mg \in merge_data(File(x), File(c), calibration) :
                LET m == get_metrics(mg)
                IN  /\ xiaomi' = File(x)
                    /\ coospo' = File(c)
                    /\ merged' = File(mg)
                    /\ m.raised = ""
                    /\ history' = File(upsert_history(history,
                                         history_entry(d3, m, current_weight(profile))))
                    /\ today' = d3
    /\ ret' = [op |-> "refresh"]
    /\ UNCHANGED <<calibration, profile, pc, loc, workouts>>

\* the profile form's submit button; today_str and today_date are two reads
\* of the clock
SaveProfile ==
    /\ PageLoads
    /\ \E w \in Weights : \E today_str \in Now(today) : \E today_date \in Now(today_str) :
        /\ profile' = [exists |-> TRUE, weight_kg |-> w]
        /\ history' = File(update_history_on_save(history, today_str, today_date,
                                                  get_metrics(merged.rows), w))
        /\ today' = today_date
    /\ ret' = [op |-> "save_profile"]
    /\ UNCHANGED <<xiaomi, coospo, calibration, merged, pc, loc, workouts>>

\* midnight passes
NextDay ==
    /\ today < MaxDay
    /\ today' = today + 1
    /\ UNCHANGED <<xiaomi, coospo, calibration, merged, history, profile, pc, loc, ret, workouts>>

\* the data directory after pull_xiaomi.py, pull_coospo.py and merge.py were
\* run by hand, before the dashboard has written anything
Init ==
    /\ workouts = NoFile
    /\ today = 0
    /\ \E x \in generate_xiaomi_data(0), c \in generate_coospo_data(0) :
        /\ xiaomi = File(x)
        /\ coospo = File(c)
        /\ calibration \in {NoCalibration, ProfileA}
        /\ \E mg \in merge_data(File(x), File(c), calibration) : merged = File(mg)
    /\ history = NoFile
    /\ profile = NoProfile
    /\ pc = IdleSessions
    /\ loc = IdleLocals
    /\ ret = NoReturn

Next == Refresh \/ SaveProfile \/ NextDay

Spec == Init /\ [][Next]_vars

Dates(h) == {h.rows[i].date : i \in 1..Len(h.rows)}
RowsOf(h, day) == SelectSeq(h.rows, LAMBDA r : r.date = day)

\* C1: after any sequence of refreshes and profile saves from an empty
\* history file, the history holds at most one snapshot per calendar date.
\* (Fails: a profile save that reads the clock on both sides of midnight
\* appends a second row for the day that just ended.)
C1_OneRowPerDate ==
    history.exists =>
        \A i, j \in 1..Len(history.rows) :
            history.rows[i].date = history.rows[j].date => i = j

\* C10: a refresh replaces the history snapshot for today with the snapshot
\* it just computed and leaves the snapshot of every other date as it was: no
\* other date's row is removed, added or altered.  (Fails on a history that a
\* profile save left with two rows for one date: the refresh drops the
\* earlier one.)
C10_RefreshTouchesTodayOnly ==
    [][Refresh =>
        /\ RowsOf(history', today') =
             <<history_entry(today', get_metrics(merged'.rows), current_weight(profile))>>
        /\ \A d \in (Dates(history) \cup Dates(history')) \ {today'} :
             RowsOf(history', d) = RowsOf(history, d)]_vars

\* ------------------------------------------- the refresh handler, by steps

Sessions == {1, 2}
Others(p) == Sessions \ {p}

\* the positions of a session, in the order of the handler's statements
Order ==
    {<<"idle", "gen_coospo">>, <<"gen_coospo", "merge">>, <<"merge", "metrics">>,
     <<"metrics", "entry">>, <<"entry", "read">>, <<"read", "write">>,
     <<"write", "done">>, <<"done", "idle">>}

\* the button is pressed on a page that loaded (m = get_metrics() at the top
\* of tab 1), and generate_xiaomi_data() runs
GenerateXiaomi(p) ==
    /\ pc[p] = "idle"
    /\ PageLoads
    /\ \E x \in generate_xiaomi_data(today) : xiaomi' = File(x)
    /\ pc' = [pc EXCEPT ![p] = "gen_coospo"]
    /\ loc' = [loc EXCEPT ![p] = [IdleLocals[p] EXCEPT
                                     !.cal0 = calibration.exists,
                                     !.m = get_metrics(merged.rows)]]
    /\ UNCHANGED <<today, coospo, calibration, merged, history, profile, ret, workouts>>

\* generate_coospo_data()
GenerateCoospo(p) ==
    /\ pc[p] = "gen_coospo"
    /\ \E c \in generate_coospo_data(today) : coospo' = File(c)
    /\ pc' = [pc EXCEPT ![p] = "merge"]
    /\ UNCHANGED <<today, xiaomi, calibration, merged, history, profile, loc, ret, workouts>>

\* merge_data()
MergeData(p) ==
    /\ pc[p] = "merge"
    /\ xiaomi.exists
    /\ \E mg \in merge_data(xiaomi, coospo, calibration) : merged' = File(mg)
    /\ pc' = [pc EXCEPT ![p] = "metrics"]
    /\ UNCHANGED <<today, xiaomi, coospo, calibration, history, profile, loc, ret, workouts>>

GetMetrics_skipped(p) ==
    /\ pc[p] = "metrics"
    /\ pc' = [pc EXCEPT ![p] = "entry"]
    /\ UNCHANGED <<today, xiaomi, coospo, calibration, merged, history, profile, loc, ret, workouts>>

\* m = get_metrics(), on the canonical file as it is now
GetMetrics(p) ==
    /\ pc[p] = "metrics"
    /\ merged.exists
    /\ get_metrics(merged.rows).raised = ""
    /\ loc' = [loc EXCEPT ![p].m = get_metrics(merged.rows)]
    /\ pc' = [pc EXCEPT ![p] = "entry"]
    /\ UNCHANGED <<today, xiaomi, coospo, calibration, merged, history, profile, ret, workouts>>

\* the profile is loaded and today's one-row table is built
BuildEntry(p) ==
    /\ pc[p] = "entry"
    /\ loc' = [loc EXCEPT ![p].entry =
                  history_entry(today, loc[p].m, current_weight(profile))]
    /\ pc' = [pc EXCEPT ![p] = "read"]
    /\ UNCHANGED <<today, xiaomi, coospo, calibration, merged, history, profile, ret, workouts>>

\* os.path.exists(history_path) and pd.read_csv(history_path); read_first
\* notes that no other session has read the history for its refresh yet
ReadHistory(p) ==
    /\ pc[p] = "read"
    /\ loc' = [loc EXCEPT ![p].old = history,
                          ![p].read_first = \A q \in Others(p) : pc[q] \notin {"write", "done"}]
    /\ pc' = [pc EXCEPT ![p] = "write"]
    /\ UNCHANGED <<today, xiaomi, coospo, calibration, merged, history, profile, ret, workouts>>

\* combined.to_csv(history_path); wrote_last marks the last writer
WriteHistory(p) ==
    /\ pc[p] = "write"
    /\ history' = File(upsert_history(loc[p].old, loc[p].entry))
    /\ loc' = [q \in Sessions |-> [loc[q] EXCEPT !.wrote_last = (q = p)]]
    /\ pc' = [pc EXCEPT ![p] = "done"]
    /\ UNCHANGED <<today, xiaomi, coospo, calibration, merged, profile, ret, workouts>>

\* st.rerun(): the script starts over
Rerun(p) ==
    /\ pc[p] = "done"
    /\ pc' = [pc EXCEPT ![p] = "idle"]
    /\ loc' = [loc EXCEPT ![p] = IdleLocals[p]]
    /\ UNCHANGED <<today, xiaomi, coospo, calibration, merged, history, profile, ret, workouts>>

\* a data directory the dashboard has been used on: the raw and canonical
\* files are yesterday's or today's, and the history holds what the refreshes
\* that wrote them left
InitSessions ==
    /\ workouts = NoFile
    /\ today = 1
    /\ calibration \in {NoCalibration, ProfileA}
    /\ profile \in {NoProfile, [exists |-> TRUE, weight_kg |-> 70]}
    /\ \E d \in {0, 1} :
        \E x \in generate_xiaomi_data(d), c \in generate_coospo_data(d) :
            \E mg \in merge_data(File(x), File(c), calibration) :
                LET e == history_entry(d, get_metrics(mg), NaN)
                    e0 == history_entry(0, get_metrics(mg), NaN)
                IN  /\ xiaomi = File(x)
                    /\ coospo = File(c)
                    /\ merged = File(mg)
                    /\ history \in IF d = 0 THEN {NoFile, File(<<e>>)}
                                   ELSE {File(<<e>>), File(<<e0, e>>)}
    /\ pc = IdleSessions
    /\ loc = IdleLocals
    /\ ret = NoReturn

\* one session pressing "Refresh Data" again and again
NextRefresh ==
    \/ GenerateXiaomi(1)
    \/ GenerateCoospo(1)
    \/ MergeData(1)
    \/ GetMetrics(1)
    \/ BuildEntry(1)
    \/ ReadHistory(1)
    \/ WriteHistory(1)
    \/ Rerun(1)

SpecRefresh == InitSessions /\ [][NextRefresh]_vars

\* two sessions (two browser tabs), each pressing "Refresh Data" once
NextRace ==
    \E p \in Sessions :
        \/ GenerateXiaomi(p)
        \/ GenerateCoospo(p)
        \/ MergeData(p)
        \/ GetMetrics(p)
        \/ BuildEntry(p)
        \/ ReadHistory(p)
        \/ WriteHistory(p)

SpecRace == InitSessions /\ [][NextRace]_vars

AfterMerge == {"metrics", "entry", "read", "write", "done"}

\* C8 (as claimed): a refresh started with no calibration profile runs
\* calibration before merging, so once its merge is done a profile exists.
C8_CalibratesWhenMissing ==
    \A p \in Sessions : (pc[p] \in AfterMerge /\ ~loc[p].cal0) => calibration.exists

\* C8 (amended): a refresh generates the raw samples, merges them (with the
\* persisted profile if there is one, raw otherwise), computes the snapshot
\* from the freshly merged series and then writes today's entry, in this
\* order; it never runs calibration, and the history is not written before
\* the snapshot is computed.
C8_RefreshOrder ==
    /\ [](pc[1] = "done" =>
            /\ xiaomi.rows \in generate_xiaomi_data(today)
            /\ coospo.rows \in generate_coospo_data(today)
            /\ merged.rows \in merge_data(xiaomi, coospo, calibration)
            /\ loc[1].entry =
                 history_entry(today, get_metrics(merged.rows), current_weight(profile))
            /\ RowsOf(history, today) = <<loc[1].entry>>)
    /\ [][/\ pc'[1] # pc[1] => <<pc[1], pc'[1]>> \in Order
          /\ calibration' = calibration
          /\ history' # history =>
                /\ pc[1] = "write"
                /\ loc[1].m = get_metrics(merged.rows)
                /\ loc[1].entry.date = today]_vars

\* a refresh started without a profile has written today's entry, and there
\* is still no profile
C8_Witness ==
    /\ pc[1] = "done"
    /\ ~loc[1].cal0
    /\ ~calibration.exists
    /\ RowsOf(history, today) = <<loc[1].entry>>
    /\ Cardinality(Dates(history)) >= 2

\* a read the history first and wrote it last, b did both in between
LostUpdate(a, b) ==
    /\ a # b
    /\ pc[a] = "done" /\ pc[b] = "done"
    /\ loc[a].read_first
    /\ loc[a].wrote_last

\* C9: when two refreshes race on the history file, the one that read it
\* first and wrote it last decides the outcome: today's entry is its snapshot,
\* the file is its stale read plus that entry, the other refresh's entry is
\* gone, and neither session has seen an error.
C9_LastWriterWins ==
    \A a, b \in Sessions :
        LostUpdate(a, b) =>
            /\ RowsOf(history, loc[a].entry.date) = <<loc[a].entry>>
            /\ history.rows = upsert_history(loc[a].old, loc[a].entry)
            /\ loc[b].entry # loc[a].entry => loc[b].entry \notin Range(history.rows)
            /\ loc[a].m.raised = "" /\ loc[b].m.raised = ""

\* the interleaving happened with two different snapshots
C9_Witness ==
    /\ LostUpdate(1, 2)
    /\ loc[1].entry # loc[2].entry
    /\ loc[1].old = loc[2].old
    /\ loc[1].old.exists

\* ------------------------------------------------------------ the first run

\* get_metrics() as its caller sees it: pd.read_csv of the canonical file is
\* not guarded, so a missing file raises out of get_metrics
get_metrics_file(f) ==
    IF ~f.exists THEN [raised |-> "FileNotFoundError"] ELSE get_metrics(f.rows)

\* a fresh checkout: no canonical file, no history; the raw files and the
\* calibration profile may or may not be there yet
InitFirstRun ==
    /\ workouts = NoFile
    /\ today = 0
    /\ xiaomi = NoFile
    /\ coospo = NoFile
    /\ calibration \in {NoCalibration, ProfileA}
    /\ merged = NoFile
    /\ history = NoFile
    /\ profile = NoProfile
    /\ pc = IdleSessions
    /\ loc = IdleLocals
    /\ ret = NoReturn

\* python pull_xiaomi.py
PullXiaomi ==
    /\ \E x \in generate_xiaomi_data(today) : xiaomi' = File(x)
    /\ ret' = [op |-> "generate_xiaomi_data", value |-> [raised |-> ""]]
    /\ UNCHANGED <<today, coospo, calibration, merged, history, profile, pc, loc, workouts>>

\* python pull_coospo.py
PullCoospo ==
    /\ \E c \in generate_coospo_data(today) : coospo' = File(c)
    /\ ret' = [op |-> "generate_coospo_data", value |-> [raised |-> ""]]
    /\ UNCHANGED <<today, xiaomi, calibration, merged, history, profile, pc, loc, workouts>>

\* python merge.py: the read of the wrist file is outside the try
MergeScript ==
    /\ IF xiaomi.exists
       THEN /\ \E mg \in merge_data(xiaomi, coospo, calibration) : merged' = File(mg)
            /\ ret' = [op |-> "merge_data", value |-> [raised |-> ""]]
       ELSE /\ merged' = merged
            /\ ret' = [op |-> "merge_data", value |-> [raised |-> "FileNotFoundError"]]
    /\ UNCHANGED <<today, xiaomi, coospo, calibration, history, profile, pc, loc, workouts>>

\* streamlit run app.py: tab 1 starts with m = get_metrics()
PageLoadTab1 ==
    /\ ret' = [op |-> "page_load", value |-> get_metrics_file(merged)]
    /\ UNCHANGED <<today, xiaomi, coospo, calibration, merged, history, profile, pc, loc, workouts>>

NextFirstRun == PullXiaomi \/ PullCoospo \/ MergeScript \/ PageLoadTab1

SpecFirstRun == InitFirstRun /\ [][NextFirstRun]_vars

\* C11: when the canonical series file does not exist yet, get_metrics
\* returns the default snapshot (hrv 50, rhr 60) and no exception reaches the
\* caller.  (Fails: the read of the missing file raises FileNotFoundError.)
C11_MissingFileGivesDefaults ==
    (ret.op = "page_load" /\ ~merged.exists) =>
        /\ ret.value.raised = ""
        /\ ret.value.hrv = 10 * DefaultHrv
        /\ ret.value.rhr = DefaultRhr

\* ----------------------------------------------------- the optional columns

OptionalColumns == {"spo2", "sleep_stage", "steps"}

\* a table without the columns in `absent`
DropColumns(df, absent) ==
    [i \in 1..Len(df) |-> [c \in (DOMAIN df[i]) \ absent |-> df[i][c]]]

MaxColumnRows == 2

\* canonical files written from raw files that lack optional columns
InitColumns ==
    /\ workouts = NoFile
    /\ today = 0
    /\ xiaomi = NoFile
    /\ coospo = NoFile
    /\ calibration = NoCalibration
    /\ \E hb \in SeqsUpTo(MetricHours \X MetricBpms, MaxColumnRows),
          rrp \in MetricRrPatterns, steps \in MetricSteps,
          absent \in SUBSET OptionalColumns :
            /\ Len(hb) >= 1
            /\ \A i \in 1..(Len(hb) - 1) : hb[i][1] <= hb[i + 1][1]
            /\ merged = File(DropColumns(MetricSeries(hb, rrp, steps), absent))
    /\ history = NoFile
    /\ profile = NoProfile
    /\ pc = IdleSessions
    /\ loc = IdleLocals
    /\ ret = NoReturn

NextColumns == MetricsCall

SpecColumns == InitColumns /\ [][NextColumns]_vars

SnapshotKeys == {"hrv", "rhr", "strain", "recovery", "steps"}

\* C12: for a canonical series in which an optional column (spo2,
\* sleep_stage or steps) is absent, get_metrics does not raise and returns the
\* mapping with its keys present.  (Fails: without the sleep_stage column
\* get_metrics raises KeyError.)
C12_AbsentColumnTolerated ==
    (ret.op = "get_metrics" /\ Columns(merged.rows) # AllColumns) =>
        /\ ret.value.raised = ""
        /\ SnapshotKeys \subseteq DOMAIN ret.value

\* ------------------------------------------- applying a calibration profile

\* profiles a calibration.json can hold besides ProfileA: the identity, a
\* pure offset, and one whose bpm transform has the fixed point 60
ProfileIdentity ==
    [exists |-> TRUE, bpm_slope |-> <<1, 1>>, bpm_intercept |-> 0,
     rr_slope |-> <<1, 1>>, rr_intercept |-> 0, samples |-> 30]
ProfileOffset ==
    [exists |-> TRUE, bpm_slope |-> <<1, 1>>, bpm_intercept |-> 5,
     rr_slope |-> <<1, 1>>, rr_intercept |-> 0 - 20, samples |-> 30]
ProfileHalf ==
    [exists |-> TRUE, bpm_slope |-> <<1, 2>>, bpm_intercept |-> 30,
     rr_slope |-> <<1, 1>>, rr_intercept |-> 0, samples |-> 30]
Profiles == {NoCalibration, ProfileA, ProfileIdentity, ProfileOffset, ProfileHalf}

MaxApplyRows == 2
ApplyBpms == {60, 80, 100}

ApplyInputs ==
    {[i \in 1..Len(b) |-> WristRow(MinuteSeconds * i, b[i], 1000, 0, 0)] :
        b \in SeqsUpTo(ApplyBpms, MaxApplyRows)}

InitApply ==
    /\ workouts = NoFile
    /\ today = 0
    /\ \E df \in ApplyInputs : xiaomi = File(df)
    /\ coospo = NoFile
    /\ calibration \in Profiles
    /\ merged = NoFile
    /\ history = NoFile
    /\ profile = NoProfile
    /\ pc = IdleSessions
    /\ loc = IdleLocals
    /\ ret = NoReturn

\* apply_calibration(df) on the wrist table
ApplyCall ==
    /\ ret.op = "none"
    /\ LET once == apply_calibration(xiaomi.rows, calibration)
       IN  ret' = [op |-> "apply_calibration", times |-> 1, raised |-> "",
                   once |-> once, value |-> once]
    /\ UNCHANGED <<today, xiaomi, coospo, calibration, merged, history, profile, pc, loc, workouts>>

\* apply_calibration(df) on the table the first call returned
ApplyAgain ==
    /\ ret.op = "apply_calibration"
    /\ ret.times = 1
    /\ ret' = [ret EXCEPT !.times = 2,
                          !.value = apply_calibration(ret.value, calibration)]
    /\ UNCHANGED <<today, xiaomi, coospo, calibration, merged, history, profile, pc, loc, workouts>>

NextApply == ApplyCall \/ ApplyAgain

SpecApply == InitApply /\ [][NextApply]_vars

SameReadings(a, b) ==
    /\ Len(a) = Len(b)
    /\ \A i \in 1..Len(a) : a[i].bpm = b[i].bpm /\ a[i].rr_ms = b[i].rr_ms

\* v * slope + intercept = v, in exact arithmetic
FixedPoint(v, slope, intercept) == v * slope[1] + intercept * slope[2] = v * slope[2]

\* C13 (as claimed): applying the profile to an already-calibrated series
\* gives the same bpm and rr_ms values as applying it once.
C13_Idempotent ==
    (ret.op = "apply_calibration" /\ ret.times = 2) => SameReadings(ret.value, ret.once)

\* C13 (amended): a second application transforms the calibrated values
\* again; it gives the same readings as one application exactly when the
\* profile is absent or every calibrated bpm and rr_ms value is a fixed point
\* of the profile's transform (as with the identity profile).
C13_SecondApplicationTransformsAgain ==
    (ret.op = "apply_calibration" /\ ret.times = 2) =>
        (SameReadings(ret.value, ret.once) <=>
            \/ ~calibration.exists
            \/ \A i \in 1..Len(ret.once) :
                 /\ FixedPoint(ret.once[i].bpm, calibration.bpm_slope,
                               calibration.bpm_intercept)
                 /\ FixedPoint(ret.once[i].rr_ms, calibration.rr_slope,
                               calibration.rr_intercept))

\* a profile written by calibration was applied twice and the readings moved
C13_Witness ==
    /\ ret.op = "apply_calibration" /\ ret.times = 2
    /\ calibration = ProfileA
    /\ Len(ret.once) = MaxApplyRows
    /\ ~SameReadings(ret.value, ret.once)
    /\ ~SameReadings(ret.once, xiaomi.rows)

\* a profile that is not the identity was applied twice to readings it fixes
C13_WitnessFixed ==
    /\ ret.op = "apply_calibration" /\ ret.times = 2
    /\ calibration = ProfileHalf
    /\ Len(ret.once) >= 1
    /\ SameReadings(ret.value, ret.once)

\* C14: when no calibration profile is persisted, apply_calibration returns
\* the series with every bpm and rr_ms value unchanged, and merge_data goes
\* on with the raw wrist series: the canonical file is written, each of its
\* rows is a raw wrist row or a reference row, and every wrist timestamp is
\* in it.
C14_NoProfilePassthrough ==
    (merged.exists /\ ~calibration.exists) =>
        /\ SameReadings(apply_calibration(xiaomi.rows, calibration), xiaomi.rows)
        /\ \A i \in 1..Len(merged.rows) :
             merged.rows[i] \in Range(xiaomi.rows) \cup Range(coospo.rows)
        /\ Timestamps(xiaomi.rows) \subseteq Timestamps(merged.rows)

\* a merge without a profile that kept raw wrist rows next to reference rows
C14_Witness ==
    /\ merged.exists /\ ~calibration.exists
    /\ Len(xiaomi.rows) >= 2
    /\ coospo.exists /\ Len(coospo.rows) >= 1
    /\ \E i \in 1..Len(merged.rows) : merged.rows[i] \in Range(xiaomi.rows)
    /\ \E i \in 1..Len(merged.rows) : merged.rows[i] \in Range(coospo.rows)

\* the wrist samples that have a reference sample at most 1 minute away,
\* earlier or later
NearPairs ==
    Cardinality({i \in 1..Len(xiaomi.rows) :
        \E j \in 1..Len(coospo.rows) :
            AbsDiff(xiaomi.rows[i].timestamp, coospo.rows[j].timestamp) <= MinuteSeconds})

\* C15: in calibration a wrist sample that has a reference sample at most
\* 1 minute away in either direction counts as a matched pair.  (Fails: the
\* join looks backward only, a wrist sample whose only reference samples
\* are later is not matched.)
C15_MatchedInEitherDirection ==
    ret.op = "calibrate_wrist_to_chest" => ret.value.samples = NearPairs

\* ------------------------------------------------- overtraining assessment

\* df.tail(n) and df.head(n)
TailRows(rows, n) == SubSeq(rows, Max(1, Len(rows) - n + 1), Len(rows))
HeadRows(rows, n) == SubSeq(rows, 1, Min(n, Len(rows)))

\* rows[f].sum(); mean() comparisons are made on sums
SumField(rows, f) ==
    LET F[i \in 0..Len(rows)] == IF i = 0 THEN 0 ELSE F[i - 1] + rows[i][f]
    IN  F[Len(rows)]

OvertrainingWindow == 7
OvertrainingLookback == 14

\* metrics.detect_overtraining(history_df, current_metrics): strain, hrv and
\* stress are held in tenths; a mean over the k rows of a window is compared
\* as a sum against k times the threshold
detect_overtraining(h) ==
    IF ~h.exists \/ Len(h.rows) < OvertrainingWindow
    THEN [risk |-> "unknown", score |-> 0]
    ELSE LET recent == TailRows(h.rows, OvertrainingLookback)
             last == TailRows(recent, OvertrainingWindow)
             first == HeadRows(recent, OvertrainingWindow)
             k == OvertrainingWindow
             strain_pts == IF SumField(last, "strain") > 160 * k THEN 3
                           ELSE IF SumField(last, "strain") > 130 * k THEN 1 ELSE 0
             hrv_trend == SumField(last, "hrv") - SumField(first, "hrv")
             hrv_pts == IF hrv_trend < 0 - 100 * k THEN 3
                        ELSE IF hrv_trend < 0 - 50 * k THEN 1 ELSE 0
             rhr_trend == SumField(last, "rhr") - SumField(first, "rhr")
             rhr_pts == IF rhr_trend > 5 * k THEN 3
                        ELSE IF rhr_trend > 2 * k THEN 1 ELSE 0
             recovery_pts == IF SumField(last, "recovery") < 50 * k THEN 2 ELSE 0
             stress_pts == IF "stress" \in DOMAIN recent[1]
                              /\ SumField(last, "stress") > 70 * k THEN 2 ELSE 0
             risk_score == strain_pts + hrv_pts + rhr_pts + recovery_pts + stress_pts
         IN  [risk |-> IF risk_score >= 8 THEN "high"
                       ELSE IF risk_score >= 5 THEN "moderate"
                       ELSE IF risk_score >= 3 THEN "low" ELSE "minimal",
              score |-> risk_score]

\* alerts.check_overtraining_risk(history_df, lookback_days=7); diff().mean()
\* over k rows is (last - first) / (k - 1)
check_overtraining_risk(h) ==
    IF Len(h.rows) < OvertrainingWindow
    THEN [risk |-> "unknown", score |-> 0]
    ELSE LET recent == TailRows(h.rows, OvertrainingWindow)
             k == OvertrainingWindow
             high_strain_days == Cardinality({i \in 1..k : recent[i].strain > 140})
             strain_pts == IF high_strain_days >= 4 THEN 3
                           ELSE IF high_strain_days >= 2 THEN 1 ELSE 0
             recovery_pts == IF SumField(recent, "recovery") < 50 * k THEN 3
                             ELSE IF SumField(recent, "recovery") < 60 * k THEN 1 ELSE 0
             hrv_pts == IF recent[k].hrv - recent[1].hrv < 0 - 20 * (k - 1) THEN 2 ELSE 0
             rhr_pts == IF recent[k].rhr - recent[1].rhr > 2 * (k - 1) THEN 2 ELSE 0
             risk_score == strain_pts + recovery_pts + hrv_pts + rhr_pts
         IN  [risk |-> IF risk_score >= 7 THEN "high"
                       ELSE IF risk_score >= 4 THEN "moderate" ELSE "low",
              score |-> risk_score]

\* histories of n days with the same strain, recovery and stress every day,
\* hrv falling by dh tenths and rhr rising by dr a day; stress = NaN leaves
\* the stress column out
OvertrainingLengths == {OvertrainingWindow - 1, OvertrainingWindow, OvertrainingLookback}
OvertrainingStrains == {130, 180}
OvertrainingRecoveries == {40, 60}
OvertrainingStress == {NaN, 50, 80}
HrvFalls == {0, 30}
RhrRises == {0, 3}

OvertrainingHistory(n, strain, recovery, stress, dh, dr) ==
    [i \in 1..n |->
        IF stress = NaN
        THEN [date |-> i - 1, strain |-> strain, recovery |-> recovery,
              hrv |-> 900 - dh * (i - 1), rhr |-> 50 + dr * (i - 1)]
        ELSE [date |-> i - 1, strain |-> strain, recovery |-> recovery,
              hrv |-> 900 - dh * (i - 1), rhr |-> 50 + dr * (i - 1),
              stress |-> stress]]

InitOvertraining ==
    /\ workouts = NoFile
    /\ \E n \in OvertrainingLengths, strain \in OvertrainingStrains,
          recovery \in OvertrainingRecoveries, stress \in OvertrainingStress,
          dh \in HrvFalls, dr \in RhrRises :
            /\ today = n - 1
            /\ history = File(OvertrainingHistory(n, strain, recovery, stress, dh, dr))
    /\ xiaomi = NoFile
    /\ coospo = NoFile
    /\ calibration = NoCalibration
    /\ merged = NoFile
    /\ profile = NoProfile
    /\ pc = IdleSessions
    /\ loc = IdleLocals
    /\ ret = NoReturn

\* get_metrics() assesses the history it has read
DetectOvertrainingCall ==
    /\ ret.op = "none"
    /\ ret' = [op |-> "detect_overtraining", value |-> detect_overtraining(history)]
    /\ UNCHANGED <<today, xiaomi, coospo, calibration, merged, history, profile, pc, loc, workouts>>

\* the dashboard's overtraining panel
CheckOvertrainingCall ==
    /\ ret.op = "none"
    /\ ret' = [op |-> "check_overtraining_risk", value |-> check_overtraining_risk(history)]
    /\ UNCHANGED <<today, xiaomi, coospo, calibration, merged, history, profile, pc, loc, workouts>>

NextOvertraining == DetectOvertrainingCall \/ CheckOvertrainingCall

SpecOvertraining == InitOvertraining /\ [][NextOvertraining]_vars

\* exactly 7 snapshots, all with strain 18 and recovery 40, hrv and rhr constant
SevenHardDays ==
    /\ Len(history.rows) = 7
    /\ \A i \in 1..7 :
        /\ history.rows[i].strain = 180
        /\ history.rows[i].recovery = 40
        /\ history.rows[i].hrv = history.rows[1].hrv
        /\ history.rows[i].rhr = history.rows[1].rhr

\* C16: on a history of exactly 7 snapshots with strain 18 and recovery 40
\* (hrv and rhr constant) the overtraining assessment is "high" under both
\* policies.  (Fails: both policies answer "moderate".)
C16_SevenHardDaysHighRisk ==
    (SevenHardDays /\ ret.op \in {"detect_overtraining", "check_overtraining_risk"}) =>
        ret.value.risk = "high"

\* ------------------------------------------------- rest-day recommendation

RestRecoveryBelow == 40
RestReadinessBelow == 40
RestStrainDays == 3
RestStrainAbove == 160

recommend_rest_day_inclusive(h, current_metrics) ==
    [rest_recommended |->
        \/ current_metrics.recovery < RestRecoveryBelow
        \/ /\ h.exists /\ Len(h.rows) >= RestStrainDays
           /\ SumField(TailRows(h.rows, RestStrainDays), "strain")
                >= RestStrainAbove * RestStrainDays
        \/ current_metrics.readiness < RestReadinessBelow]

\* metrics.recommend_rest_day(history_df, current_metrics), with the mapping
\* get_metrics passes: {"recovery": ..., "readiness": ...}; strain in tenths
recommend_rest_day(h, current_metrics) ==
    [rest_recommended |->
        \/ current_metrics.recovery < RestRecoveryBelow
        \/ /\ h.exists /\ Len(h.rows) >= RestStrainDays
           /\ SumField(TailRows(h.rows, RestStrainDays), "strain")
                > RestStrainAbove * RestStrainDays
        \/ current_metrics.readiness < RestReadinessBelow]

MaxRestRows == 4
RestStrains == {150, 160, 170}
RestScores == {RestRecoveryBelow - 1, RestRecoveryBelow}

RestHistories ==
    {NoFile} \cup
    {File([i \in 1..Len(st) |->
              [date |-> i - 1, strain |-> st[i], recovery |-> 50, hrv |-> 600, rhr |-> 60]]) :
        st \in SeqsUpTo(RestStrains, MaxRestRows)}

InitRestDay ==
    /\ workouts = NoFile
    /\ today = 0
    /\ history \in RestHistories
    /\ \E recovery \in RestScores, readiness \in RestScores :
        ret = [op |-> "args", recovery |-> recovery, readiness |-> readiness]
    /\ xiaomi = NoFile
    /\ coospo = NoFile
    /\ calibration = NoCalibration
    /\ merged = NoFile
    /\ profile = NoProfile
    /\ pc = IdleSessions
    /\ loc = IdleLocals

\* get_metrics(): rest_day = recommend_rest_day(history_df, current_metrics)
RecommendRestCall ==
    /\ ret.op = "args"
    /\ ret' = [op |-> "recommend_rest_day", recovery |-> ret.recovery,
               readiness |-> ret.readiness,
               value |-> recommend_rest_day(history, ret)]
    /\ UNCHANGED <<today, xiaomi, coospo, calibration, merged, history, profile, pc, loc, workouts>>

NextRestDay == RecommendRestCall

SpecRestDay == InitRestDay /\ [][NextRestDay]_vars

\* the mean strain of the last 3 snapshots is above 16; false with fewer
\* than 3 snapshots
HighThreeDayStrain ==
    LET n == Len(history.rows)
    IN  /\ n >= 3
        /\ history.rows[n].strain + history.rows[n - 1].strain
             + history.rows[n - 2].strain > 3 * 160

\* C17: recommend_rest_day reports rest_recommended = true exactly when
\* recovery < 40, or readiness < 40, or the mean strain of the last 3
\* history snapshots is > 16 (false with fewer than 3 snapshots).
C17_RestExactlyWhen ==
    ret.op = "recommend_rest_day" =>
        (ret.value.rest_recommended <=>
            (ret.recovery < 40 \/ ret.readiness < 40 \/ HighThreeDayStrain))

\* rest recommended for the strain of the last 3 days alone, on a longer
\* history whose earlier day would not have sufficed
C17_Witness ==
    /\ ret.op = "recommend_rest_day"
    /\ ret.recovery >= 40 /\ ret.readiness >= 40
    /\ Len(history.rows) = 4
    /\ history.rows[1].strain = 150
    /\ HighThreeDayStrain
    /\ ret.value.rest_recommended

\* no rest recommended with the 3-day mean at exactly 16
C17_WitnessBoundary ==
    /\ ret.op = "recommend_rest_day"
    /\ ret.recovery = 40 /\ ret.readiness = 40
    /\ Len(history.rows) >= 3
    /\ \A i \in 1..Len(history.rows) : history.rows[i].strain = 160
    /\ ~ret.value.rest_recommended

\* ---------------------------------------------------------- rest-day check

\* all(recent_recoveries[i] > recent_recoveries[i+1] ...), tried only on a
\* list of at least 3
declining(recent_recoveries) ==
    /\ Len(recent_recoveries) >= 3
    /\ \A i \in 1..(Len(recent_recoveries) - 1) :
         recent_recoveries[i] > recent_recoveries[i + 1]

rest_score_inclusive(recovery, strain_yesterday, recent_recoveries) ==
    (IF recovery < 40 THEN 3 ELSE IF recovery < 60 THEN 1 ELSE 0)
    + (IF strain_yesterday >= 160 THEN 2 ELSE 0)
    + (IF declining(recent_recoveries) THEN 2 ELSE 0)

\* rest_score of alerts.should_rest_today; strain in tenths
rest_score(recovery, strain_yesterday, recent_recoveries) ==
    (IF recovery < 40 THEN 3 ELSE IF recovery < 60 THEN 1 ELSE 0)
    + (IF strain_yesterday > 160 THEN 2 ELSE 0)
    + (IF declining(recent_recoveries) THEN 2 ELSE 0)

\* alerts.should_rest_today(recovery, strain_yesterday, recent_recoveries)
should_rest_today(recovery, strain_yesterday, recent_recoveries) ==
    LET score == rest_score(recovery, strain_yesterday, recent_recoveries)
    IN  IF score >= 5 THEN [should_rest |-> TRUE, urgency |-> "high"]
        ELSE IF score >= 3 THEN [should_rest |-> TRUE, urgency |-> "moderate"]
        ELSE [should_rest |-> FALSE, urgency |-> "none"]

MaxRecentRecoveries == 3
ShouldRestRecoveries == {39, 40, 59, 60}
YesterdayStrains == {160, 161}
RecentRecoveryValues == {30, 40, 50}

InitShouldRest ==
    /\ workouts = NoFile
    /\ today = 0
    /\ \E recovery \in ShouldRestRecoveries, strain_yesterday \in YesterdayStrains,
          recent \in SeqsUpTo(RecentRecoveryValues, MaxRecentRecoveries) :
        ret = [op |-> "args", recovery |-> recovery,
               strain_yesterday |-> strain_yesterday, recent_recoveries |-> recent]
    /\ xiaomi = NoFile
    /\ coospo = NoFile
    /\ calibration = NoCalibration
    /\ merged = NoFile
    /\ history = NoFile
    /\ profile = NoProfile
    /\ pc = IdleSessions
    /\ loc = IdleLocals

ShouldRestCall ==
    /\ ret.op = "args"
    /\ ret' = [ret EXCEPT !.op = "should_rest_today"]
                @@ [value |-> should_rest_today(ret.recovery, ret.strain_yesterday,
                                                ret.recent_recoveries)]
    /\ UNCHANGED <<today, xiaomi, coospo, calibration, merged, history, profile, pc, loc, workouts>>

NextShouldRest == ShouldRestCall

SpecShouldRest == InitShouldRest /\ [][NextShouldRest]_vars

LowRecovery == ret.recovery < 40
HardYesterday == ret.strain_yesterday > 160
DecliningRecovery ==
    LET r == ret.recent_recoveries
    IN  Len(r) >= 3 /\ \A i \in 1..(Len(r) - 1) : r[i + 1] < r[i]

\* C18 (as claimed): urgency is "high" exactly when recovery < 40,
\* yesterday's strain > 16 and the recent recoveries are strictly declining
\* all hold; a recommended rest with one of them failing is "moderate".
C18_HighNeedsAllThree ==
    (ret.op = "should_rest_today" /\ Len(ret.recent_recoveries) = 3) =>
        /\ ret.value.urgency = "high" <=>
             (LowRecovery /\ HardYesterday /\ DecliningRecovery)
        /\ (ret.value.should_rest /\ ~(LowRecovery /\ HardYesterday /\ DecliningRecovery))
             => ret.value.urgency = "moderate"

\* C18 (amended): urgency is "high" exactly when recovery < 40 and at least
\* one of the other two holds, or recovery < 60 and both of them hold;
\* every other recommended rest is "moderate".
C18_HighNeedsTwo ==
    ret.op = "should_rest_today" =>
        /\ ret.value.urgency = "high" <=>
             \/ LowRecovery /\ (HardYesterday \/ DecliningRecovery)
             \/ ret.recovery < 60 /\ HardYesterday /\ DecliningRecovery
        /\ ret.value.should_rest => ret.value.urgency \in {"high", "moderate"}
        /\ ~ret.value.should_rest => ret.value.urgency = "none"
        /\ ret.value.should_rest <=>
             \/ LowRecovery
             \/ ret.recovery < 60 /\ (HardYesterday \/ DecliningRecovery)
             \/ HardYesterday /\ DecliningRecovery

\* "high" with a low recovery after a hard day, the recoveries not declining
C18_Witness ==
    /\ ret.op = "should_rest_today"
    /\ LowRecovery /\ HardYesterday /\ ~DecliningRecovery
    /\ Len(ret.recent_recoveries) = 3
    /\ ret.value.urgency = "high"

\* "high" with a recovery of 40 or more
C18_WitnessMidRecovery ==
    /\ ret.op = "should_rest_today"
    /\ ~LowRecovery /\ HardYesterday /\ DecliningRecovery
    /\ ret.value.urgency = "high"

\* ------------------------------------------- workout intensity (metrics.py)

\* 4 * df["bpm"].quantile(0.25), pandas' linear interpolation between the two
\* order statistics around position 0.25 * (n - 1)
baseline_x4(df) ==
    LET n == Len(df)
        lo == (n - 1) \div 4
        frac == (n - 1) % 4
    IN  IF frac = 0 THEN 4 * KthBpm(df, lo + 1)
        ELSE 4 * KthBpm(df, lo + 1) + frac * (KthBpm(df, lo + 2) - KthBpm(df, lo + 1))

\* df["is_workout"] = df["bpm"] > baseline_hr * 1.3
is_workout(df) == [i \in 1..Len(df) |-> df[i].bpm * 40 > baseline_x4(df) * 13]

intensity_inclusive(total, n, base4) ==
    IF total * 40 >= base4 * 16 * n THEN "High"
    ELSE IF total * 400 >= base4 * 145 * n THEN "Moderate"
    ELSE "Light"

\* the intensity of a group of n rows whose bpm sum to total: avg_hr against
\* baseline_hr * 1.6 and baseline_hr * 1.45
intensity(total, n, base4) ==
    IF total * 40 > base4 * 16 * n THEN "High"
    ELSE IF total * 400 > base4 * 145 * n THEN "Moderate"
    ELSE "Light"

\* metrics.detect_workouts(df): the periods of at least 10 consecutive rows
\* above 1.3 x baseline, each with its intensity
metrics_detect_workouts(df) ==
    IF df = <<>> THEN <<>>
    ELSE
    LET e == is_workout(df)
        b == block(e)
        last == b[Len(df)]
        base4 == baseline_x4(df)
        rowsOf(id) == {i \in 1..Len(df) : b[i] = id /\ e[i]}
        first(id) == CHOOSE i \in rowsOf(id) : \A j \in rowsOf(id) : i <= j
        final(id) == CHOOSE i \in rowsOf(id) : \A j \in rowsOf(id) : i >= j
        F[id \in 0..last] ==
            IF id = 0 THEN <<>>
            ELSE IF rowsOf(id) # {} /\ Cardinality(rowsOf(id)) >= MinWorkoutRows
                 THEN Append(F[id - 1],
                        [start |-> df[first(id)].timestamp,
                         end |-> df[final(id)].timestamp,
                         duration_min |-> Cardinality(rowsOf(id)),
                         avg_hr |-> SumBpm(df, rowsOf(id)) \div Cardinality(rowsOf(id)),
                         max_hr |-> CHOOSE v \in {df[i].bpm : i \in rowsOf(id)} :
                                       \A i \in rowsOf(id) : v >= df[i].bpm,
                         intensity |-> intensity(SumBpm(df, rowsOf(id)),
                                                 Cardinality(rowsOf(id)), base4)])
                 ELSE F[id - 1]
    IN  F[last]

\* a series resting at rhr with one plateau of `len` rows at rhr + above,
\* `rest` rows before it and after it
PlateauRests == {2, 6}
PlateauLengths == {8, MinWorkoutRows - 1, MinWorkoutRows, 15}
PlateauAboves == {21, 45, 50, 60, 61}
PlateauRhrs == {60, 100}

PlateauSeries(rest, len, above, rhr) ==
    [i \in 1..(2 * rest + len) |->
        WristRow(7 * HourSeconds + MinuteSeconds * i,
                 IF i > rest /\ i <= rest + len THEN rhr + above ELSE rhr,
                 1000, 0, 0)]

InitIntensity ==
    /\ workouts = NoFile
    /\ today = 0
    /\ xiaomi = NoFile
    /\ coospo = NoFile
    /\ calibration = NoCalibration
    /\ \E rest \in PlateauRests, len \in PlateauLengths, above \in PlateauAboves,
          rhr \in PlateauRhrs :
            /\ merged = File(PlateauSeries(rest, len, above, rhr))
            /\ ret = [op |-> "args", rhr |-> rhr, value |-> <<>>]
    /\ history = NoFile
    /\ profile = NoProfile
    /\ pc = IdleSessions
    /\ loc = IdleLocals

\* get_metrics(): workouts = detect_workouts(df.copy())
MetricsDetectCall ==
    /\ ret.op = "args"
    /\ ret' = [op |-> "metrics_detect_workouts", rhr |-> ret.rhr,
               value |-> metrics_detect_workouts(merged.rows)]
    /\ UNCHANGED <<today, xiaomi, coospo, calibration, merged, history, profile, pc, loc, workouts>>

NextIntensity == DetectCall \/ MetricsDetectCall

SpecIntensity == InitIntensity /\ [][NextIntensity]_vars

PlateauRows == {i \in 1..Len(merged.rows) : merged.rows[i].bpm # ret.rhr}
PlateauAbove == merged.rows[CHOOSE i \in PlateauRows : TRUE].bpm - ret.rhr
Detectors == {"detect_workouts", "metrics_detect_workouts"}

\* C19 (as claimed): every segment carries an intensity set by its average
\* heart rate against RHR (High above RHR + 60, Moderate above RHR + 45,
\* Light otherwise); a 15-row plateau at RHR + 50 gives exactly one segment,
\* of 15 minutes and Moderate, and an 8-row plateau gives none.
C19_IntensityRelativeToRhr ==
    ret.op \in Detectors =>
        /\ \A k \in 1..Len(ret.value) :
            /\ "intensity" \in DOMAIN ret.value[k]
            /\ ret.value[k].intensity =
                 IF ret.value[k].avg_hr > ret.rhr + 60 THEN "High"
                 ELSE IF ret.value[k].avg_hr > ret.rhr + 45 THEN "Moderate"
                 ELSE "Light"
        /\ (Cardinality(PlateauRows) = 15 /\ PlateauAbove = 50) =>
            /\ Len(ret.value) = 1
            /\ ret.value[1].duration_min = 15
            /\ ret.value[1].intensity = "Moderate"
        /\ Cardinality(PlateauRows) = 8 => ret.value = <<>>

\* C19 (amended): a segment of metrics.detect_workouts carries an intensity
\* set by its average heart rate against the baseline, the 25th percentile
\* of the series (High above 1.6 x baseline, Moderate above 1.45 x baseline,
\* Light otherwise); a segment of workout_detector.detect_workouts carries
\* none.  In a series whose baseline is RHR, a 15-row plateau at RHR + 50
\* gives exactly one segment of 15 minutes under both, Moderate only when
\* 1.45 x RHR < RHR + 50 <= 1.6 x RHR; an 8-row plateau gives none.
C19_IntensityRelativeToBaseline ==
    /\ ret.op = "detect_workouts" =>
        \A k \in 1..Len(ret.value) : "intensity" \notin DOMAIN ret.value[k]
    /\ ret.op = "metrics_detect_workouts" =>
        \A k \in 1..Len(ret.value) :
            LET avg10 == ret.value[k].avg_hr * 40
                base == baseline_x4(merged.rows)
            IN  /\ ret.value[k].intensity = "High" <=> avg10 > 16 * base
                /\ ret.value[k].intensity = "Moderate" <=>
                     (avg10 <= 16 * base /\ 10 * avg10 > 145 * base)
                /\ ret.value[k].intensity = "Light" <=> 10 * avg10 <= 145 * base
    /\ (ret.op \in Detectors /\ baseline_x4(merged.rows) = 4 * ret.rhr) =>
        /\ (Cardinality(PlateauRows) = 15 /\ PlateauAbove = 50) =>
            /\ Len(ret.value) = 1
            /\ ret.value[1].duration_min = 15
            /\ ret.op = "metrics_detect_workouts" =>
                 (ret.value[1].intensity = "Moderate" <=>
                    (145 * ret.rhr < 100 * (ret.rhr + 50)
                       /\ 10 * (ret.rhr + 50) <= 16 * ret.rhr))
        /\ Cardinality(PlateauRows) = 8 => ret.value = <<>>

\* the 15-row plateau at RHR + 50 over a resting rate of 60 is rated High
C19_Witness ==
    /\ ret.op = "metrics_detect_workouts"
    /\ ret.rhr = 60
    /\ baseline_x4(merged.rows) = 4 * ret.rhr
    /\ Cardinality(PlateauRows) = 15 /\ PlateauAbove = 50
    /\ Len(ret.value) = 1
    /\ ret.value[1].intensity = "High"

\* the same plateau over a resting rate of 100 is rated Moderate
C19_WitnessModerate ==
    /\ ret.op = "metrics_detect_workouts"
    /\ ret.rhr = 100
    /\ Cardinality(PlateauRows) = 15 /\ PlateauAbove = 50
    /\ Len(ret.value) = 1
    /\ ret.value[1].intensity = "Moderate"

\* ------------------------------------------ sleep performance (metrics.py)

\* Scores are held in 480ths of a point, which makes every term an integer:
\* hours are minutes / 60, efficiency is held in 480ths of 100 percent, hrv
\* and spo2_avg in tenths.
ScoreUnit == 480

\* duration score (30 points)
duration_score(sleep_duration) ==
    IF 7 * 60 <= sleep_duration /\ sleep_duration <= 9 * 60 THEN 30 * ScoreUnit
    ELSE IF sleep_duration >= 6 * 60
         THEN 20 * ScoreUnit + Min(10 * ScoreUnit, (sleep_duration - 6 * 60) * 80)
         ELSE Max(0, sleep_duration * 40)

\* deep sleep score (25 points)
deep_score(deep) ==
    IF 90 <= deep /\ deep <= 150 THEN 25 * ScoreUnit
    ELSE Max(0, 25 * ScoreUnit - AbsDiff(deep, 120) * 80)

\* REM sleep score (20 points)
rem_score(rem) ==
    IF 90 <= rem /\ rem <= 150 THEN 20 * ScoreUnit
    ELSE Max(0, 20 * ScoreUnit - AbsDiff(rem, 120) * 64)

efficiency_score_uncapped(efficiency) == efficiency * 15

\* efficiency score (15 points): min(15, (efficiency_pct / 100) * 15)
efficiency_score(efficiency) == Min(15 * ScoreUnit, efficiency * 15)

\* HRV score (10 points): min(10, (hrv / 80) * 10)
hrv_score(hrv10) == Min(10 * ScoreUnit, hrv10 * 6)

\* SpO2 bonus: nothing for None or 0, 5 from 95, 2 from 90
spo2_score(spo2_avg) ==
    IF spo2_avg = NaN \/ spo2_avg = 0 THEN 0
    ELSE IF spo2_avg >= 950 THEN 5 * ScoreUnit
    ELSE IF spo2_avg >= 900 THEN 2 * ScoreUnit
    ELSE 0

\* the sum before int(min(100, score))
sleep_score_sum(sleep_duration, deep, rem, efficiency, hrv10, spo2_avg) ==
    duration_score(sleep_duration) + deep_score(deep) + rem_score(rem)
        + efficiency_score(efficiency) + hrv_score(hrv10) + spo2_score(spo2_avg)

calculate_sleep_performance_score(sleep_duration, deep, rem, efficiency, hrv10, spo2_avg) ==
    Min(100 * ScoreUnit,
        sleep_score_sum(sleep_duration, deep, rem, efficiency, hrv10, spo2_avg))
            \div ScoreUnit

\* get_metrics(): the sleep rows are counted by stage (1 light, 2 deep,
\* 3 REM), sleep_duration is their number, efficiency is sleep_duration / 8
\* hours, and the score is computed from them, hrv and the SpO2 average.
sleep_score_of(light, deep, rem, hrv10, spo2_avg) ==
    LET sleep_duration == light + deep + rem
        efficiency == sleep_duration
    IN  calculate_sleep_performance_score(sleep_duration, deep, rem, efficiency,
                                          hrv10, spo2_avg)

LightMinutes == {0, 150, 240, 360}
DeepMinutes == {0, 60, 90, 120}
RemMinutes == {0, 60, 120, 240}
SleepHrvs == {0, 400, 800, 1200}
SleepSpo2s == {NaN, 890, 920, 960}

InitSleepScore ==
    /\ workouts = NoFile
    /\ today = 0
    /\ xiaomi = NoFile
    /\ coospo = NoFile
    /\ calibration = NoCalibration
    /\ merged = NoFile
    /\ history = NoFile
    /\ profile = NoProfile
    /\ pc = IdleSessions
    /\ loc = IdleLocals
    /\ \E light \in LightMinutes, deep \in DeepMinutes, rem \in RemMinutes,
          hrv10 \in SleepHrvs, spo2_avg \in SleepSpo2s :
            ret = [op |-> "args", light |-> light, deep |-> deep, rem |-> rem,
                   hrv |-> hrv10, spo2_avg |-> spo2_avg, value |-> 0]

SleepScoreCall ==
    /\ ret.op = "args"
    /\ ret' = [ret EXCEPT !.op = "sleep_score",
                          !.value = sleep_score_of(ret.light, ret.deep, ret.rem,
                                                   ret.hrv, ret.spo2_avg)]
    /\ UNCHANGED <<today, xiaomi, coospo, calibration, merged, history, profile, pc, loc, workouts>>

NextSleepScore == SleepScoreCall

SpecSleepScore == InitSleepScore /\ [][NextSleepScore]_vars

SleepDuration == ret.light + ret.deep + ret.rem

\* C20 (as claimed): the reported sleep_score is, within a point of rounding,
\* 40% sufficiency + 30% efficiency + 20% consistency + 10% sleep-stress for
\* sub-scores in [0, 100], efficiency being the reported sleep efficiency,
\* and nothing else contributes: the split of the same sleep duration into
\* stages and the SpO2 average leave it unchanged.
C20_FourWeightedSubScores ==
    ret.op = "sleep_score" =>
        /\ \E sufficiency, consistency, sleep_stress \in {10 * k : k \in 0..10} :
              AbsDiff(100 * ScoreUnit * ret.value,
                      40 * ScoreUnit * sufficiency
                        + 30 * Min(100 * ScoreUnit, 100 * SleepDuration)
                        + 20 * ScoreUnit * consistency
                        + 10 * ScoreUnit * sleep_stress) <= 100 * ScoreUnit
        /\ \A light \in LightMinutes, deep \in DeepMinutes, rem \in RemMinutes,
              spo2_avg \in SleepSpo2s :
                light + deep + rem = SleepDuration =>
                    sleep_score_of(light, deep, rem, ret.hrv, spo2_avg) = ret.value

\* C20 (amended): the reported sleep_score is the whole part of the sum,
\* capped at 100, of five sub-scores and a bonus: duration in [0, 30], deep
\* sleep in [0, 25], REM sleep in [0, 20], efficiency in [0, 15], HRV in
\* [0, 10] and 0, 2 or 5 points for the SpO2 average; it lies in [0, 100].
C20_SixBoundedTerms ==
    ret.op = "sleep_score" =>
        LET duration == duration_score(SleepDuration)
            deep == deep_score(ret.deep)
            rem == rem_score(ret.rem)
            efficiency == efficiency_score(SleepDuration)
            hrv == hrv_score(ret.hrv)
            bonus == spo2_score(ret.spo2_avg)
            total == duration + deep + rem + efficiency + hrv + bonus
        IN  /\ 0 <= duration /\ duration <= 30 * ScoreUnit
            /\ 0 <= deep /\ deep <= 25 * ScoreUnit
            /\ 0 <= rem /\ rem <= 20 * ScoreUnit
            /\ 0 <= efficiency /\ efficiency <= 15 * ScoreUnit
            /\ 0 <= hrv /\ hrv <= 10 * ScoreUnit
            /\ bonus \in {0, 2 * ScoreUnit, 5 * ScoreUnit}
            /\ 0 <= ret.value /\ ret.value <= 100
            /\ IF total >= 100 * ScoreUnit THEN ret.value = 100
               ELSE /\ ret.value * ScoreUnit <= total
                    /\ total < (ret.value + 1) * ScoreUnit

\* ten hours of sleep with ideal stages, a high HRV and a good SpO2 average:
\* every term is at its maximum and the cap at 100 acts
C20_Witness ==
    /\ ret.op = "sleep_score"
    /\ SleepDuration > 8 * 60
    /\ ret.spo2_avg >= 950
    /\ sleep_score_sum(SleepDuration, ret.deep, ret.rem, SleepDuration,
                       ret.hrv, ret.spo2_avg) > 100 * ScoreUnit
    /\ ret.value = 100

\* the same duration and HRV with no deep or REM sleep scores lower
C20_WitnessStages ==
    /\ ret.op = "sleep_score"
    /\ SleepDuration = 360 /\ ret.deep = 0 /\ ret.rem = 0
    /\ ret.value < sleep_score_of(120, 120, 120, ret.hrv, ret.spo2_avg)

\* ------------------------------------------- composite scores (metrics.py)

\* calculate_stress_score(df), in thousandths.  Per clock hour: the mean bpm
\* and the standard deviation of the differences of the hour's rr_ms (0 for
\* an hour of one row, nan when fewer than two values are left by dropna());
\* the hours' products bpm / 100 * 50 / (std + 1) are averaged, nan ones
\* skipped, times 10, and clamped: max(0.0, nan) is 0.0.  The standard
\* deviation is held in tenths, rounded down.
calculate_stress_score(df) ==
    LET hours == {df[i].timestamp \div HourSeconds : i \in 1..Len(df)}
        group(h) == SelectSeq(df, LAMBDA r : r.timestamp \div HourSeconds = h)
        SumDiff(rr) == IF Len(rr) = 0 THEN 0 ELSE rr[Len(rr)] - rr[1]
        valid(h) == Len(group(h)) <= 1 \/ Len(rr_values(group(h))) >= 2
        term(h) ==
            LET g == group(h)
                rr == rr_values(g)
                k == Len(rr) - 1
                total == SumBpm(g, 1..Len(g))
            IN  IF Len(g) <= 1 THEN (5000 * total) \div Len(g)
                ELSE LET q == k * SumSqDiff(rr) - SumDiff(rr) * SumDiff(rr)
                     IN  (50000 * total * k) \div (Len(g) * (ISqrt(100 * q) + 10 * k))
        good == {h \in hours : valid(h)}
        SumTerms[S \in SUBSET good] ==
            IF S = {} THEN 0
            ELSE LET h == CHOOSE x \in S : TRUE IN term(h) + SumTerms[S \ {h}]
    IN  IF hours = {} THEN 5000
        ELSE IF good = {} THEN 0
        ELSE Min(10000, Max(0, SumTerms[good] \div Cardinality(good)))

calculate_training_readiness_unclamped(hrv10, rhr20, recovery, sleep_efficiency) ==
    LET sleep_score == IF sleep_efficiency = NaN THEN 70 ELSE sleep_efficiency
    IN  (25 * Min(800, hrv10) + 6 * Max(0, 3000 - rhr20)
           + 320 * recovery + 160 * sleep_score) \div 800

\* calculate_training_readiness(hrv, rhr, recovery, sleep_efficiency_str):
\* hrv in tenths, rhr in twentieths, the efficiency string as its number of
\* percent or NaN when it does not parse (read as 70).  The weighted sum is
\* held in 800ths.
calculate_training_readiness(hrv10, rhr20, recovery, sleep_efficiency) ==
    LET sleep_score == IF sleep_efficiency = NaN THEN 70 ELSE sleep_efficiency
        hrv_points == Min(800, hrv10)
        rhr_points == Max(0, 3000 - rhr20)
        readiness == 25 * hrv_points + 6 * rhr_points + 320 * recovery + 160 * sleep_score
    IN  Min(100, Max(0, readiness \div 800))

MaxStressRows == 3
StressHours == {7, 8}
StressBpms == {0, 60, 200}
StressRrs == {NaN, 300, 1000}
ReadinessHrvs == {0, 400, 800, 2000}
ReadinessRhrs == {0, 800, 1200, 3000, 6000}
ReadinessRecoveries == {MinRecovery, 60, MaxRecovery}
ReadinessEfficiencies == {NaN, 0, 85, 100, 150}
SleepEfficiencies == {0, 240, 480, 960}

InitScores ==
    /\ workouts = NoFile
    /\ today = 0
    /\ xiaomi = NoFile
    /\ coospo = NoFile
    /\ calibration = NoCalibration
    /\ history = NoFile
    /\ profile = NoProfile
    /\ pc = IdleSessions
    /\ loc = IdleLocals
    /\ \/ /\ \E s \in SeqsUpTo(StressHours \X StressBpms \X StressRrs, MaxStressRows) :
               /\ s # <<>>
               /\ \A i \in 1..(Len(s) - 1) : s[i][1] <= s[i + 1][1]
               /\ merged = File([i \in 1..Len(s) |->
                     WristRow(s[i][1] * HourSeconds + MinuteSeconds * i, s[i][2],
                              s[i][3], 0, 0)])
          /\ ret = [op |-> "args", of |-> "stress"]
       \/ /\ merged = NoFile
          /\ \E hrv10 \in ReadinessHrvs, rhr20 \in ReadinessRhrs,
                recovery \in ReadinessRecoveries, eff \in ReadinessEfficiencies :
               ret = [op |-> "args", of |-> "readiness", hrv |-> hrv10, rhr |-> rhr20,
                      recovery |-> recovery, efficiency |-> eff]
       \/ /\ merged = NoFile
          /\ \E m \in LightMinutes, deep \in DeepMinutes, rem \in RemMinutes,
                eff \in SleepEfficiencies, hrv10 \in SleepHrvs, spo2_avg \in SleepSpo2s :
               ret = [op |-> "args", of |-> "sleep", sleep_duration |-> m, deep |-> deep,
                      rem |-> rem, efficiency |-> eff, hrv |-> hrv10,
                      spo2_avg |-> spo2_avg]

\* get_metrics(): stress = calculate_stress_score(df)
StressCall ==
    /\ ret.op = "args" /\ ret.of = "stress"
    /\ ret' = [op |-> "calculate_stress_score",
               value |-> calculate_stress_score(merged.rows)]
    /\ UNCHANGED <<today, xiaomi, coospo, calibration, merged, history, profile, pc, loc, workouts>>

\* get_metrics(): readiness = calculate_training_readiness(...)
ReadinessCall ==
    /\ ret.op = "args" /\ ret.of = "readiness"
    /\ ret' = [ret EXCEPT !.op = "calculate_training_readiness"] @@
              [value |-> calculate_training_readiness(ret.hrv, ret.rhr, ret.recovery,
                                                      ret.efficiency)]
    /\ UNCHANGED <<today, xiaomi, coospo, calibration, merged, history, profile, pc, loc, workouts>>

\* calculate_sleep_performance_score on arguments of its own
SleepPerformanceCall ==
    /\ ret.op = "args" /\ ret.of = "sleep"
    /\ ret' = [ret EXCEPT !.op = "calculate_sleep_performance_score"] @@
              [value |-> calculate_sleep_performance_score(ret.sleep_duration, ret.deep,
                            ret.rem, ret.efficiency, ret.hrv, ret.spo2_avg)]
    /\ UNCHANGED <<today, xiaomi, coospo, calibration, merged, history, profile, pc, loc, workouts>>

NextScores == StressCall \/ ReadinessCall \/ SleepPerformanceCall

SpecScores == InitScores /\ [][NextScores]_vars

\* C21: for non-negative durations, heart rates and HRV the sleep score lies
\* in [0, 100], stress in [0, 10] (held in thousandths) and readiness in
\* [0, 100].
C21_ScoresInRange ==
    /\ ret.op = "calculate_stress_score" => (0 <= ret.value /\ ret.value <= 10000)
    /\ ret.op = "calculate_training_readiness" => (0 <= ret.value /\ ret.value <= 100)
    /\ ret.op = "calculate_sleep_performance_score" =>
         (0 <= ret.value /\ ret.value <= 100)

\* a readiness whose weighted sum exceeds 100 (resting rate below 50, every
\* other term at its maximum) is reported as 100
C21_Witness ==
    /\ ret.op = "calculate_training_readiness"
    /\ ret.rhr < 50 * 20 /\ ret.hrv >= 800 /\ ret.recovery = MaxRecovery
    /\ ret.efficiency >= 100
    /\ calculate_training_readiness_unclamped(ret.hrv, ret.rhr, ret.recovery,
                                              ret.efficiency) > 100
    /\ ret.value = 100

\* a stress clamped at 10, and one at 0 because every hour's term is nan
C21_WitnessStressHigh == ret.op = "calculate_stress_score" /\ ret.value = 10000
C21_WitnessStressNan ==
    /\ ret.op = "calculate_stress_score"
    /\ Len(merged.rows) >= 2
    /\ \A i \in 1..Len(merged.rows) : merged.rows[i].rr_ms = NaN /\ merged.rows[i].bpm > 0
    /\ ret.value = 0

\* ------------------------------------------------------- recovery forecast

NoForecast == [none |-> TRUE, predicted_recovery |-> 0]

predict_recovery_unclamped(h) ==
    IF ~h.exists \/ Len(h.rows) < 3 THEN NoForecast
    ELSE
    LET recent == TailRows(h.rows, 7)
        k == Len(recent)
        hrv_rise == recent[k].hrv - recent[1].hrv
        rhr_rise == recent[k].rhr - recent[1].rhr
        strain_sum == SumField(recent, "strain")
        recovery_sum == SumField(recent, "recovery")
        adjust == (IF hrv_rise > 0 THEN 5
                   ELSE IF hrv_rise < 0 - 50 * (k - 1) THEN 0 - 5 ELSE 0)
                + (IF rhr_rise < 0 THEN 3
                   ELSE IF rhr_rise > 2 * (k - 1) THEN 0 - 3 ELSE 0)
                + (IF strain_sum > 150 * k THEN 0 - 5
                   ELSE IF strain_sum < 80 * k THEN 3 ELSE 0)
        prediction == recovery_sum + adjust * k
    IN  [none |-> FALSE,
         predicted_recovery |-> prediction \div k]

\* metrics.predict_recovery(history_df): over the last 7 rows, diff().mean()
\* is (last - first) / (k - 1), hrv and strain are held in tenths, and the
\* adjustments are whole numbers, so int() of the clamped sum is the whole
\* part of the mean recovery plus the adjustments
predict_recovery(h) ==
    IF ~h.exists \/ Len(h.rows) < 3 THEN NoForecast
    ELSE
    LET recent == TailRows(h.rows, 7)
        k == Len(recent)
        hrv_rise == recent[k].hrv - recent[1].hrv
        rhr_rise == recent[k].rhr - recent[1].rhr
        strain_sum == SumField(recent, "strain")
        recovery_sum == SumField(recent, "recovery")
        adjust == (IF hrv_rise > 0 THEN 5
                   ELSE IF hrv_rise < 0 - 50 * (k - 1) THEN 0 - 5 ELSE 0)
                + (IF rhr_rise < 0 THEN 3
                   ELSE IF rhr_rise > 2 * (k - 1) THEN 0 - 3 ELSE 0)
                + (IF strain_sum > 150 * k THEN 0 - 5
                   ELSE IF strain_sum < 80 * k THEN 3 ELSE 0)
        prediction == recovery_sum + adjust * k
    IN  [none |-> FALSE,
         predicted_recovery |-> Min(100, Max(0, prediction) \div k)]

\* alerts.get_recovery_forecast(recent_strains, recent_recoveries): the mean
\* recovery minus 1.5 times today's strain over the mean strain, clamped and
\* cut to its whole part; strains are held in tenths
get_recovery_forecast(recent_strains, recent_recoveries) ==
    IF Len(recent_strains) < 3 \/ Len(recent_recoveries) < 3 THEN NoForecast
    ELSE
    LET Sum(s) == SumField([i \in 1..Len(s) |-> [v |-> s[i]]], "v")
        n == Len(recent_strains)
        m == Len(recent_recoveries)
        num == 20 * n * Sum(recent_recoveries)
                 - 3 * m * (n * recent_strains[n] - Sum(recent_strains))
        den == 20 * m * n
    IN  [none |-> FALSE,
         predicted_recovery |-> Max(0, Min(100 * den, num)) \div den]

ForecastLengths == {0, 2, 3, 8}
ForecastStrains == {0, 120, 210}
ForecastRecoveries == {MinRecovery, MaxRecovery}
ForecastHrvSlopes == {0 - 60, 0, 10}
ForecastRhrSlopes == {0 - 1, 0, 3}

InitForecast ==
    /\ workouts = NoFile
    /\ today = 0
    /\ xiaomi = NoFile
    /\ coospo = NoFile
    /\ calibration = NoCalibration
    /\ merged = NoFile
    /\ profile = NoProfile
    /\ pc = IdleSessions
    /\ loc = IdleLocals
    /\ ret = NoReturn
    /\ \E n \in ForecastLengths, strain \in ForecastStrains, last \in ForecastStrains,
          recovery \in ForecastRecoveries, dh \in ForecastHrvSlopes,
          dr \in ForecastRhrSlopes :
            history = IF n = 0 THEN NoFile
                      ELSE File([i \in 1..n |->
                             [date |-> i - 1,
                              strain |-> IF i = n THEN last ELSE strain,
                              recovery |-> IF i = 1 THEN MinRecovery ELSE recovery,
                              hrv |-> 500 + dh * i, rhr |-> 60 + dr * i]])

\* get_metrics(): recovery_prediction = predict_recovery(history_df)
PredictRecoveryCall ==
    /\ ret.op = "none"
    /\ ret' = [op |-> "predict_recovery", value |-> predict_recovery(history)]
    /\ UNCHANGED <<today, xiaomi, coospo, calibration, merged, history, profile, pc, loc, workouts>>

\* the dashboard's forecast on the last 14 strains and recoveries
RecoveryForecastCall ==
    /\ ret.op = "none"
    /\ LET recent == TailRows(history.rows, 14)
       IN  ret' = [op |-> "get_recovery_forecast",
                   value |-> get_recovery_forecast(
                                [i \in 1..Len(recent) |-> recent[i].strain],
                                [i \in 1..Len(recent) |-> recent[i].recovery])]
    /\ UNCHANGED <<today, xiaomi, coospo, calibration, merged, history, profile, pc, loc, workouts>>

NextForecast == PredictRecoveryCall \/ RecoveryForecastCall

SpecForecast == InitForecast /\ [][NextForecast]_vars

\* C22: under predict_recovery and under get_recovery_forecast the forecast
\* is absent with fewer than 3 history points and a value in [0, 100]
\* otherwise.
C22_ForecastAbsentOrInRange ==
    ret.op \in {"predict_recovery", "get_recovery_forecast"} =>
        IF Len(history.rows) < 3 THEN ret.value.none
        ELSE /\ ~ret.value.none
             /\ 0 <= ret.value.predicted_recovery
             /\ ret.value.predicted_recovery <= 100

\* a full recovery with rising HRV, falling RHR and low strain: the sum is
\* above 100 and the forecast is 100
C22_Witness ==
    /\ ret.op = "predict_recovery"
    /\ Len(history.rows) >= 3
    /\ predict_recovery_unclamped(history).predicted_recovery > 100
    /\ ret.value.predicted_recovery = 100

C22_WitnessForecast ==
    /\ ret.op = "get_recovery_forecast"
    /\ Len(history.rows) = 3
    /\ ~ret.value.none
    /\ ret.value.predicted_recovery < MinRecovery

C22_WitnessAbsent ==
    /\ ret.op = "get_recovery_forecast" /\ Len(history.rows) = 2 /\ ret.value.none

\* ---------------------------------------------- weekly summary (insights.py)

\* get_weekly_summary(history_df) with its two readings of the clock:
\* week_data is the rows dated from seven_days_ago on, prev_week the rows
\* dated from fourteen_days_ago up to seven_days_ago excluded; strain is held
\* in tenths
get_weekly_summary(h, now_week, now_prev) ==
    LET seven_days_ago == now_week - 7
        fourteen_days_ago == now_prev - 14
        week_data == SelectSeq(h.rows, LAMBDA r : r.date >= seven_days_ago)
        prev_week == SelectSeq(h.rows, LAMBDA r : r.date >= fourteen_days_ago
                                                   /\ r.date < seven_days_ago)
    IN  IF Len(week_data) = 0 THEN [none |-> TRUE]
        ELSE [none |-> FALSE,
              week |-> {week_data[i].date : i \in 1..Len(week_data)},
              prev |-> {prev_week[i].date : i \in 1..Len(prev_week)},
              total_strain |-> SumField(week_data, "strain"),
              wow_strain_change |->
                  IF Len(prev_week) > 0
                  THEN SumField(week_data, "strain") - SumField(prev_week, "strain")
                  ELSE 0]

WeeklyLastDay == 16
WeeklyFirstDays == 0..8
WeeklyToday == {14, 15}

\* a history with one row per tracked date, from a first day to today, with
\* at most one day left out; strain grows with the date
InitWeekly ==
    /\ workouts = NoFile
    /\ xiaomi = NoFile
    /\ coospo = NoFile
    /\ calibration = NoCalibration
    /\ merged = NoFile
    /\ profile = NoProfile
    /\ pc = IdleSessions
    /\ loc = IdleLocals
    /\ ret = NoReturn
    /\ today \in WeeklyToday
    /\ \E first \in WeeklyFirstDays, skipped \in 0..WeeklyLastDay :
        LET days == {d \in first..today : d # skipped}
            Rows[d \in (first - 1)..today] ==
                IF d < first THEN <<>>
                ELSE IF d \in days
                     THEN Append(Rows[d - 1],
                                 [date |-> d, strain |-> 100 + d, recovery |-> 50,
                                  hrv |-> 500, rhr |-> 60, steps |-> 0,
                                  weight_kg |-> NaN])
                     ELSE Rows[d - 1]
        IN  history = File(Rows[today])

\* the history tab: weekly = get_weekly_summary(history_df) once 7 rows exist
WeeklySummaryCall ==
    /\ ret.op = "none"
    /\ Len(history.rows) >= 7
    /\ \E now_week \in {today, today + 1}, now_prev \in {today, today + 1} :
        /\ now_week <= now_prev
        /\ now_prev <= WeeklyLastDay
        /\ today' = now_prev
        /\ ret' = [op |-> "get_weekly_summary", now |-> now_week,
                   value |-> get_weekly_summary(history, now_week, now_prev)]
    /\ UNCHANGED <<xiaomi, coospo, calibration, merged, history, profile, pc, loc, workouts>>

NextWeekly == WeeklySummaryCall

SpecWeekly == InitWeekly /\ [][NextWeekly]_vars

\* C23: the summary aggregates exactly the snapshots of the 7 calendar dates
\* up to the day of the call, and compares them with exactly the snapshots
\* of the 7 dates before those; the windows are disjoint and adjacent.
C23_WeeklyWindows ==
    (ret.op = "get_weekly_summary" /\ ~ret.value.none) =>
        /\ ret.value.week = {d \in Dates(history) : d > ret.now - 7 /\ d <= ret.now}
        /\ ret.value.prev = {d \in Dates(history) : d > ret.now - 14 /\ d <= ret.now - 7}
        /\ ret.value.week \cap ret.value.prev = {}

\* ------------------------------------------------- the resting-rate window

\* C24: the resting rate get_metrics reports is the 5th percentile of the
\* samples whose time of day is at most 06:00, a sample at 06:01 or later
\* contributing nothing, and 60 when the series has no such sample.
C24_NightWindowEndsAtSix ==
    (ret.op = "get_metrics" /\ ret.value.raised = "") =>
        LET night == SelectSeq(merged.rows,
                         LAMBDA r : r.timestamp % DaySeconds <= NightLastHour * HourSeconds)
        IN  IF night = <<>> THEN ret.value.rhr = DefaultRhr
            ELSE ret.value.rhr = rhr_x20(night) \div 20

\* ------------------------------------------------- two refreshes, isolation

\* C25: while a refresh is between its generate, merge and metrics steps, no
\* other refresh replaces the files it is working from: the wrist file from
\* its generation to its merge, the chest file until its merge, the canonical
\* file from its merge to its get_metrics.
C25_RefreshIsolated ==
    [][\A p \in Sessions :
          pc'[p] = pc[p] =>
            /\ pc[p] \in {"gen_coospo", "merge"} => xiaomi' = xiaomi
            /\ pc[p] = "merge" => coospo' = coospo
            /\ pc[p] = "metrics" => merged' = merged]_vars

\* ------------------------------------------------- a failed calibration

\* C26: a calibration that fails for insufficient data leaves the persisted
\* profile exactly as it was, present or absent, so the wrist samples are
\* corrected afterwards as they were before.
C26_FailedCalibrationKeepsProfile ==
    [][(ret'.op = "calibrate_wrist_to_chest" /\ ret.op = "none" /\ ret'.value.error) =>
          /\ calibration' = calibration
          /\ apply_calibration(xiaomi'.rows, calibration')
               = apply_calibration(xiaomi.rows, calibration)]_vars

\* a failed attempt (some pairs, fewer than 30) with the earlier profile
\* still in place
C26_Witness ==
    /\ ret.op = "calibrate_wrist_to_chest"
    /\ ret.value.error
    /\ ret.value.samples > 0
    /\ calibration = ProfileA

C26_WitnessNoProfile ==
    /\ ret.op = "calibrate_wrist_to_chest"
    /\ ret.value.error
    /\ calibration = NoCalibration

\* ------------------------------------------------- the order of the history

\* C27: after any refreshes and profile saves on non-decreasing days,
\* starting from an empty history, the rows are in ascending date order, each
\* later row on a later date, so that the last N rows are the N most recent
\* tracked days.
C27_HistoryAscending ==
    \A i, j \in 1..Len(history.rows) :
        i < j => history.rows[i].date < history.rows[j].date

\* --------------------------------------- the dashboard's rest-day check

\* the data directory of a dashboard in use: the files of day 0 and a history
\* of the three days before it, with or without a row of day 0 itself
InitRestCheck ==
    /\ workouts = NoFile
    /\ today = 0
    /\ \E x \in generate_xiaomi_data(0), c \in generate_coospo_data(0) :
        /\ xiaomi = File(x)
        /\ coospo = File(c)
        /\ calibration \in {NoCalibration, ProfileA}
        /\ \E mg \in merge_data(File(x), File(c), calibration) :
            /\ merged = File(mg)
            /\ \E seen \in BOOLEAN :
                history = File(
                    [i \in 1..3 |->
                        [date |-> i - 4, recovery |-> 40 + 10 * i, strain |-> 50 * i,
                         rhr |-> 60, hrv |-> 500, steps |-> 0, weight_kg |-> NaN]]
                    \o (IF seen THEN <<history_entry(0, get_metrics(mg), NaN)>>
                        ELSE <<>>))
    /\ profile = NoProfile
    /\ pc = IdleSessions
    /\ loc = IdleLocals
    /\ ret = NoReturn

\* tab 1, "Rest Day Check": yesterday_strain is the strain of the last history
\* row, recent_recoveries the recoveries of the last three
RestDayCheck ==
    /\ PageLoads
    /\ Len(history.rows) >= 3
    /\ LET m == get_metrics(merged.rows)
           yesterday_strain == history.rows[Len(history.rows)].strain
           recent == TailRows(history.rows, 3)
           recent_recoveries == [i \in 1..Len(recent) |-> recent[i].recovery]
       IN  ret' = [op |-> "rest_day_check", recovery |-> m.recovery,
                   strain_yesterday |-> yesterday_strain,
                   recent_recoveries |-> recent_recoveries,
                   value |-> should_rest_today(m.recovery, yesterday_strain,
                                               recent_recoveries)]
    /\ UNCHANGED <<today, xiaomi, coospo, calibration, merged, history, profile, pc, loc, workouts>>

NextRestCheck == Refresh \/ NextDay \/ RestDayCheck

SpecRestCheck == InitRestCheck /\ [][NextRestCheck]_vars

\* C28: when the history holds a snapshot of each of the three days before
\* today, the rest-day check is given the strain of the snapshot dated
\* yesterday and the recoveries of the snapshots of those three days, also
\* after a refresh has written today's snapshot.
C28_RestCheckUsesDaysBeforeToday ==
    (/\ ret.op = "rest_day_check"
     /\ \A d \in (today - 3)..(today - 1) : Len(RowsOf(history, d)) = 1) =>
        /\ ret.strain_yesterday = RowsOf(history, today - 1)[1].strain
        /\ ret.recent_recoveries =
             [i \in 1..3 |-> RowsOf(history, today - 4 + i)[1].recovery]

\* ------------------------------------------------------- the workout log

MaxPresses == 3

\* tab 5, "Detect Workouts from Today's Data": the canonical series is loaded,
\* m = get_metrics() gives the resting rate, and save_workout() appends each
\* detected workout to the log
DetectWorkoutsButton ==
    /\ PageLoads
    /\ merged.rows # <<>>
    /\ ret.op \in {"args", "detect_button"}
    /\ (ret.op = "detect_button" => ret.presses < MaxPresses)
    /\ LET m == get_metrics(merged.rows)
           found == detect_workouts(merged.rows, m.rhr)
       IN  /\ workouts' = IF found = <<>> THEN workouts
                          ELSE File(workouts.rows \o found)
           /\ ret' = [op |-> "detect_button",
                      presses |-> IF ret.op = "args" THEN 1 ELSE ret.presses + 1,
                      value |-> found]
    /\ UNCHANGED <<today, xiaomi, coospo, calibration, merged, history, profile, pc, loc>>

NextWorkoutLog == DetectWorkoutsButton

SpecWorkoutLog == InitWorkout /\ [][NextWorkoutLog]_vars

\* C29: however often the detection is run on the day's series, the log
\* holds a workout of a given date and start time at most once.
C29_WorkoutLoggedOnce ==
    \A i, j \in 1..Len(workouts.rows) :
        (/\ workouts.rows[i].date = workouts.rows[j].date
         /\ workouts.rows[i].start_time = workouts.rows[j].start_time) => i = j

\* ------------------------------------------- the windows of the trend

\* C30: whenever detect_overtraining accepts the history (7 rows or more),
\* the two windows its HRV and RHR trends compare, the last 7 and the first 7
\* of the last 14 rows, share no snapshot, and every snapshot of the earlier
\* window precedes those of the recent one.
C30_TrendWindowsDisjoint ==
    (ret.op = "detect_overtraining" /\ ret.value.risk # "unknown") =>
        LET recent == TailRows(history.rows, OvertrainingLookback)
            last == TailRows(recent, OvertrainingWindow)
            first == HeadRows(recent, OvertrainingWindow)
        IN  /\ Range(last) \cap Range(first) = {}
            /\ \A a \in Range(first), b \in Range(last) : a.date < b.date

====
